---------------------------- MODULE Spec2Model ----------------------------
(***************************************************************************)
(* A model of the build queue (src/src/queue.rs) and of the git smart-HTTP *)
(* front end (src/src/git.rs) of pws.                                      *)
(*                                                                         *)
(* Spec      the build queue: producers, process_task_enqueue,             *)
(*           process_task_poll and the spawned build tasks (trigger_build  *)
(*           under the per-build timeout).                                 *)
(* LiveSpec  Spec with the fairness of the tokio scheduler.                *)
(***************************************************************************)
EXTENDS Integers, Sequences, FiniteSets, TLC

(***************************************************************************)
(* Bounds of the model.                                                    *)
(***************************************************************************)
\* BuildQueueItems sent to the ingress channel in one run
MaxSends == 2
\* the largest build-pool capacity (build_count at construction) tried
MaxCapacity == 2
\* concurrent requests to git-receive-pack of one repository
MaxPushes == 2
\* packet_write is run on every string of at most this many bytes
MaxPktLen == 3

(***************************************************************************)
(* Program constants.                                                      *)
(***************************************************************************)
\* mpsc::channel(32)
ChannelCapacity == 32
\* usize::MAX, what fetch_sub(1) leaves in an AtomicUsize holding 0.  The
\* real value is 2^64 - 1; it stands here as the largest integer TLC holds.
UsizeMax == 2147483647

VARIABLES
    capacity,         \* build_count given to BuildQueue::new
    config_timeout,   \* config.build.timeout (milliseconds)
    receive_channel,  \* the mpsc channel: BuildQueueItems in flight
    sends,            \* number of BuildQueueItems sent so far
    waiting_queue,    \* VecDeque<BuildItem>
    waiting_set,      \* HashSet<String> of container names
    build_count,      \* AtomicUsize: the available slots
    queue_lock,       \* holder of the waiting_queue mutex
    set_lock,         \* holder of the waiting_set mutex
    poll_pc,          \* position of process_task_poll
    poll_item,        \* the BuildItem popped by process_task_poll
    enq_pc,           \* position of process_task_enqueue
    enq_msg,          \* the message process_task_enqueue received
    builds,           \* the builds table: build_id -> row
    domains,          \* the domains table: the names of each project's rows
    task,             \* the spawned build task of each build_id
    hist,             \* ghost: the statuses written to each build row
    released,         \* ghost: fetch_add's done by each build task
    dropped,          \* ghost: messages process_task_enqueue dropped as duplicates
    handled,          \* ghost: the message process_task_enqueue handled last, and how
    appended,         \* ghost: the build ids in the order they were pushed onto the queue
    dispatched,       \* ghost: the build ids in the order their tasks were spawned
    git_auth,         \* AppState.git_auth
    api_tokens,       \* the rows of project_owners JOIN projects JOIN api_token
    auth_request,     \* the request basic_auth was last run on
    auth_response,    \* what basic_auth answered
    bare_head,        \* the commit HEAD of the bare repository resolves to
    clone_dir,        \* <base>/<owner>/<repo.git>/clone
    push,             \* the receive_pack_rpc handler of each push
    outbox,           \* the pushes whose spawned build_channel.send has not finished
    pkt,              \* a call of packet_write or packet_flush: its argument and result
    http              \* a request to get_info_refs, to service_rpc or to a file endpoint

cfgVars == <<capacity, config_timeout>>
chanVars == <<receive_channel, sends>>
qVars == <<waiting_queue, waiting_set>>
lockVars == <<queue_lock, set_lock>>
pollVars == <<poll_pc, poll_item, dispatched>>
enqVars == <<enq_pc, enq_msg, dropped, handled, appended>>
storeVars == <<builds, domains, hist>>
taskVars == <<task, released>>

queueVars == <<cfgVars, chanVars, qVars, lockVars, pollVars, enqVars,
               storeVars, taskVars, build_count>>

authVars == <<git_auth, api_tokens, auth_request, auth_response>>

pushVars == <<bare_head, clone_dir, push, outbox>>

pktVars == <<pkt, http>>

gitVars == <<authVars, pushVars, pktVars>>

vars == <<queueVars, gitVars>>

(***************************************************************************)
(* Data.                                                                   *)
(***************************************************************************)
\* owners, project names and tokens are one character long
Alice == <<"a">>
Bob == <<"b">>

\* the rows of projects JOIN project_owners: (owner name, project name)
ProjectRows ==
    { <<Alice, <<"p">>>>, <<Bob, <<"q">>>>,
      <<Alice, <<"p", ".", "q">>>>, <<Alice, <<"p", "-", "q">>>> }

BuildIds == 1..MaxSends

NoItem == [build_id |-> 0, container_name |-> <<>>, owner |-> <<>>, repo |-> <<>>]
NoMsg == [container_name |-> <<>>, owner |-> <<>>, repo |-> <<>>]
\* nothing handled yet
NoOutcome == [msg |-> NoMsg, outcome |-> "none"]
\* finished_at is the column get_project_status reads as an Option
NoRow == [project |-> <<>>, status |-> "absent", log |-> <<>>, finished_at |-> "null"]
\* a build task: pc, the BuildItem moved into it, and three ghosts.  Two
\* stay with the build: whether the timeout cut trigger_build off while
\* build_docker was running, and whether an UPDATE of a terminal status
\* failed.  One is a local of trigger_build, dropped with its future (by
\* the timeout, or when the task ends): what build_docker returned, "none"
\* until it returns.  build_timeout is the task's timer, in seconds
NoTask == [pc |-> "none", item |-> NoItem, cut_builder |-> FALSE,
           store_err |-> FALSE, builder |-> "none", build_timeout |-> 0]

\* config.build.timeout values tried
TimeoutValues == {2500}

\* values on both sides of a whole second, and below one second
TimerValues == {0, 999, 1000, 1999, 2500}

(***************************************************************************)
(* The store (sqlx on PgPool): an external collaborator.  Every call may   *)
(* fail; a SELECT of a project finds a row only when one exists.           *)
(***************************************************************************)
\* SELECT projects.id ... WHERE project_owners.name = $1 AND projects.name = $2
\* the answers fetch_optional can give: a row, no row (the project is not
\* there, or not there any more), or an error
ProjectAnswers(owner, repo) ==
    (IF <<owner, repo>> \in ProjectRows THEN {"row"} ELSE {}) \cup {"none", "err"}

(***************************************************************************)
(* Strings of git.rs, as sequences of characters.                          *)
(***************************************************************************)
DotGit == <<".", "g", "i", "t">>

\* s.ends_with(suffix)
EndsWith(s, suffix) ==
    /\ Len(s) >= Len(suffix)
    /\ SubSeq(s, Len(s) - Len(suffix) + 1, Len(s)) = suffix

\* the places where pattern occurs in s
Occurrences(s, pattern) ==
    {i \in 1..(Len(s) - Len(pattern) + 1) :
        SubSeq(s, i, i + Len(pattern) - 1) = pattern}

Min(S) == CHOOSE x \in S : \A y \in S : x <= y

\* s.split(pattern).next(): what comes before the first occurrence
SplitFirst(s, pattern) ==
    IF Occurrences(s, pattern) = {} THEN s
    ELSE SubSeq(s, 1, Min(Occurrences(s, pattern)) - 1)

\* s.split(pattern) without its first piece; <<>> stands for no piece left
SplitRest(s, pattern) ==
    IF Occurrences(s, pattern) = {} THEN <<>>
    ELSE SubSeq(s, Min(Occurrences(s, pattern)) + Len(pattern), Len(s))

\* s with one trailing ".git" removed
StripDotGit(s) ==
    IF EndsWith(s, DotGit) THEN SubSeq(s, 1, Len(s) - Len(DotGit)) ELSE s

\* s.trim_end_matches(pattern): every trailing repetition is removed
RECURSIVE TrimEndMatches(_, _)
TrimEndMatches(s, pattern) ==
    IF EndsWith(s, pattern)
    THEN TrimEndMatches(SubSeq(s, 1, Len(s) - Len(pattern)), pattern)
    ELSE s

\* s.replace(from, to) for a one-character pattern
Replace(s, from, to) == [i \in 1..Len(s) |-> IF s[i] = from THEN to ELSE s[i]]

\* format!("{owner}-{}", repo.trim_end_matches(".git")).replace('.', "-")
ContainerName(owner, repo) ==
    Replace(owner \o <<"-">> \o TrimEndMatches(repo, DotGit), ".", "-")

\* the BuildQueueItem receive_pack_rpc sends for /:owner/:repo (container_src
\* left out: the queue never reads it); owner and repo are the path
\* segments as they came
BuildQueueItemOf(owner, repo) ==
    [container_name |-> ContainerName(owner, repo), owner |-> owner, repo |-> repo]

\* the /:owner/:repo paths pushed to
PushPaths == { <<Alice, <<"p">>>>, <<Bob, <<"q">>>> }

BuildQueueItems == { BuildQueueItemOf(path[1], path[2]) : path \in PushPaths }

(***************************************************************************)
(* basic_auth, the middleware of every /:owner/:repo/.. route.             *)
(***************************************************************************)
\* the token tables tried: alice owns p, bob owns p and q
TokenTables ==
    { { [project_name |-> <<"p">>, project_owner |-> Alice, token |-> <<"s">>] },
      { [project_name |-> <<"p">>, project_owner |-> Alice, token |-> <<"s">>],
        [project_name |-> <<"q">>, project_owner |-> Bob, token |-> <<"t">>] },
      { [project_name |-> <<"p">>, project_owner |-> Alice, token |-> <<"s">>],
        [project_name |-> <<"p">>, project_owner |-> Bob, token |-> <<"t">>] } }

\* the :repo path segments tried
RepoSegments == { <<"p">>, <<"p">> \o DotGit, <<"q">>, <<"q">> \o DotGit }

\* the Authorization headers tried: none, another scheme, a Basic payload
\* that is not base64 or not UTF-8, and Basic payloads by their decoded text
AuthHeaders ==
    { [kind |-> "none", text |-> <<>>],
      [kind |-> "Bearer", text |-> <<>>],
      [kind |-> "bad_base64", text |-> <<>>],
      [kind |-> "bad_utf8", text |-> <<>>] }
    \cup { [kind |-> "Basic", text |-> text] :
             text \in { <<"a", ":", "s">>, <<"a", ":", "t">>, <<"b", ":", "t">>,
                        <<"b", ":", "s">>, <<"a", ":">>, <<"a">> } }

AuthRequests ==
    [owner : {Alice, Bob}, repo : RepoSegments, header : AuthHeaders]

NoRequest == [owner |-> <<>>, repo |-> <<>>, header |-> [kind |-> "none", text |-> <<>>]]

\* lines 59-64: the repo the token rows are compared with
AuthRepo(repo) ==
    IF EndsWith(repo, DotGit) THEN SplitFirst(repo, DotGit) ELSE repo

\* decoded.split(':'): parts.next().unwrap_or("") twice
AuthOwnerName(decoded) == SplitFirst(decoded, <<":">>)
AuthToken(decoded) == SplitFirst(SplitRest(decoded, <<":">>), <<":">>)

\* tokens.iter().any(..): a row of the owner named in the credentials with
\* this project name and this token
Authenticated(tokens, repo, owner_name, token) ==
    \E rec \in tokens :
        /\ rec.token = token
        /\ rec.project_name = repo /\ rec.project_owner = owner_name

\* basic_auth(State, Path((_owner, repo)), headers, request, next) for one
\* answer of the store (rows, RowNotFound or another error): "next" when
\* the handler is run, else the realm of the 401, or a panic of an unwrap
basic_auth(auth_on, tokens, store, req) ==
    IF ~auth_on THEN "next"
    ELSE IF req.header.kind = "none" THEN "401 git"
    ELSE IF req.header.kind = "Bearer" THEN "401 git"
    ELSE IF req.header.kind \in {"bad_base64", "bad_utf8"} THEN "panic"
    ELSE LET repo == AuthRepo(req.repo)
             owner_name == AuthOwnerName(req.header.text)
             token == AuthToken(req.header.text)
             rows == {rec \in tokens : rec.project_owner = owner_name}
         IN IF store = "RowNotFound" THEN "401 failed to login"
            ELSE IF store = "err" THEN "401 git"
            ELSE IF Authenticated(rows, repo, owner_name, token) THEN "next"
            ELSE "401 failed to login"

AuthIdle ==
    /\ git_auth = TRUE
    /\ api_tokens = {}
    /\ auth_request = NoRequest
    /\ auth_response = [status |-> "", store |-> ""]

AuthInit ==
    /\ git_auth \in BOOLEAN
    /\ api_tokens \in TokenTables
    /\ auth_request = NoRequest
    /\ auth_response = [status |-> "", store |-> ""]

\* one request through the middleware
BasicAuth(req, store) ==
    /\ auth_request' = req
    /\ auth_response' = [status |-> basic_auth(git_auth, api_tokens, store, req),
                         store |-> store]
    /\ UNCHANGED <<git_auth, api_tokens, pktVars, queueVars, pushVars>>

AuthNext ==
    \E req \in AuthRequests, store \in {"rows", "RowNotFound", "err"} :
        BasicAuth(req, store)

(***************************************************************************)
(* service_rpc: one run of git <rpc> --stateless-rpc on a request body.    *)
(***************************************************************************)
(* packet_write, packet_flush: pkt-line framing.  A string is the sequence *)
(* of its bytes.                                                           *)
(***************************************************************************)
HexChars == <<"0", "1", "2", "3", "4", "5", "6", "7",
              "8", "9", "a", "b", "c", "d", "e", "f">>

\* format!("{:x}", n): lowercase, no leading zeros
RECURSIVE LowerHex(_)
LowerHex(n) ==
    IF n < 16 THEN <<HexChars[n + 1]>>
    ELSE LowerHex(n \div 16) \o <<HexChars[(n % 16) + 1]>>

\* while length_hex.len() % 4 != 0 { length_hex.insert(0, '0') }
RECURSIVE PadZeros(_)
PadZeros(length_hex) ==
    IF Len(length_hex) % 4 # 0 THEN PadZeros(<<"0">> \o length_hex)
    ELSE length_hex

packet_write_Unpadded(s) == LowerHex(Len(s) + 4) \o s

packet_write(s) ==
    LET length == Len(s) + 4
        length_hex == PadZeros(LowerHex(length))
    IN length_hex \o s

packet_flush == <<"0", "0", "0", "0">>

\* no request yet
NoHttp == [pc |-> "none"]

\* no call yet
NoPkt == [pc |-> "none", s |-> <<>>, out |-> <<>>]

\* the bytes the strings are made of
PktBytes == {"0", "f", "\n"}

\* a string of n bytes c
Repeat(c, n) == [i \in 1..n |-> c]

\* the lengths at which |s| + 4 gains a hex digit: 0xf -> 0x10,
\* 0xff -> 0x100, 0xfff -> 0x1000, 0xffff -> 0x10000
PktEdgeLens == {11, 12, 251, 252, 4091, 4092, 65531, 65532}

\* every string of at most MaxPktLen bytes, and one string of each byte at
\* each edge length
PktStrings ==
    UNION { [1..n -> PktBytes] : n \in 0..MaxPktLen }
        \cup { Repeat(c, n) : c \in PktBytes, n \in PktEdgeLens }

PktInit == pkt \in { [NoPkt EXCEPT !.pc = "call", !.s = s] : s \in PktStrings }

PacketWrite ==
    /\ pkt.pc = "call"
    /\ pkt' = [pkt EXCEPT !.pc = "written", !.out = packet_write(pkt.s)]
    /\ UNCHANGED <<http, queueVars, authVars, pushVars>>

PacketFlush ==
    /\ pkt.pc = "call"
    /\ pkt' = [pkt EXCEPT !.pc = "flushed", !.out = packet_flush]
    /\ UNCHANGED <<http, queueVars, authVars, pushVars>>

(***************************************************************************)
\* the literal b"0000"
Probe == <<"0", "0", "0", "0">>

\* request bodies: the bytes as sent are either plain data or a gzip
\* stream of data
Plain(data) == [format |-> "plain", data |-> data]
Gzip(data) == [format |-> "gzip", data |-> data]

\* a pkt-line request that is not the probe, and the probe with one byte more
Pack == <<"0", "0", "0", "5", "P">>
LongProbe == <<"0", "0", "0", "0", "0">>

\* a response: status, the Content-Length header when one was set, the
\* realm of WWW-Authenticate when one was set, and the body
Response(status) ==
    [status |-> status, content_length |-> "unset", realm |-> "", body |-> <<>>]

\* no response yet
NoResponse == Response(0)

\* stdout of a git process that succeeded
GitStdout == <<"s", "t", "d", "o", "u", "t">>

\* how the run of the git process goes: it succeeds, it exits with a
\* failure, it cannot be spawned, it breaks the pipe while its stdin is
\* written, or waiting for it fails
GitOutcomes == {"ok", "failed", "spawn_err", "write_err", "wait_err"}

\* GzDecoder::new(body).read_to_end: the data of a gzip stream, or an error
Inflate(body) ==
    IF body.format = "gzip" THEN [ok |-> TRUE, bytes |-> body.data]
    ELSE [ok |-> FALSE, bytes |-> <<>>]

\* the probe is not recognised: every body is piped to git
service_rpc_NoProbe(rpc, content_encoding, body, git) ==
    IF git # "ok"
    THEN [res |-> [Response(200) EXCEPT !.status = 500], spawned |-> TRUE]
    ELSE [res |-> [Response(200) EXCEPT !.body = GitStdout], spawned |-> TRUE]

\* service_rpc(rpc, path, headers, body) for one outcome of the git
\* process: the response, and whether a git process was spawned
service_rpc(rpc, content_encoding, body, git) ==
    LET response == Response(200)
        inflated == Inflate(body)
    IN IF content_encoding = "gzip" /\ ~inflated.ok
       THEN [res |-> [response EXCEPT !.status = 500], spawned |-> FALSE]
       ELSE LET bytes == IF content_encoding = "gzip" THEN Plain(inflated.bytes)
                         ELSE body
            IN IF bytes = Plain(Probe)
               THEN [res |-> [response EXCEPT !.content_length = "0"],
                     spawned |-> FALSE]
               ELSE IF git = "spawn_err"
               THEN \* cmd.spawn().expect(..) panics
                    [res |-> NoResponse, spawned |-> FALSE]
               ELSE IF git = "write_err"
               THEN [res |-> [response EXCEPT !.status = 500], spawned |-> TRUE]
               ELSE IF git = "wait_err"
               THEN \* child.wait_with_output().await.expect(..) panics
                    [res |-> NoResponse, spawned |-> TRUE]
               ELSE IF git = "failed"
               THEN [res |-> [response EXCEPT !.status = 500], spawned |-> TRUE]
               ELSE [res |-> [response EXCEPT !.body = GitStdout], spawned |-> TRUE]

(***************************************************************************)
(* The handlers of POST /:owner/:repo/git-receive-pack and git-upload-pack *)
(* on one repository, each request pushing a commit of its own.  The       *)
(* handlers run on the worker threads of the runtime; nothing serialises   *)
(* their file system steps.                                                *)
(***************************************************************************)
Pushes == 1..MaxPushes

NoClone == [present |-> FALSE, head |-> 0, tree |-> 0]

\* a request as the handler gets it
RpcRequest(rpc, owner, repo, content_encoding, body) ==
    [rpc |-> rpc, owner |-> owner, repo |-> repo,
     content_encoding |-> content_encoding, body |-> body]

\* pushes of a pack to /a/p, and probes
PushRequests ==
    { RpcRequest("receive-pack", Alice, <<"p">>, "identity", Plain(body)) :
        body \in {Pack, Probe} }

\* every kind of request to the two RPC routes
RpcRequests ==
    { RpcRequest(rpc, Alice, repo, "identity", body) :
        rpc \in {"receive-pack", "upload-pack"},
        repo \in {<<"p">>, <<"p">> \o DotGit},
        body \in {Plain(Pack), Plain(Probe), Plain(LongProbe), Gzip(Probe)} }
    \cup
    { RpcRequest(rpc, Alice, <<"p">>, "gzip", body) :
        rpc \in {"receive-pack", "upload-pack"},
        body \in {Gzip(Pack), Gzip(Probe), Gzip(LongProbe), Plain(Probe)} }

\* pc, the request, the commit pushed, head_commit_id, the response
\* returned and two ghosts: whether the handler's forced checkout went
\* through, and the git processes service_rpc spawned
IdlePush == [pc |-> "idle", req |-> RpcRequest("receive-pack", Alice, <<"p">>,
                                               "identity", Plain(Pack)),
             commit |-> 0, head_commit_id |-> 0, res |-> NoResponse,
             checked_out |-> FALSE, git_runs |-> 0, send |-> "none"]

\* the BuildQueueItem of lines 445-450
PushItem(p) == BuildQueueItemOf(push[p].req.owner, push[p].req.repo)

PushIdle ==
    /\ bare_head = 0
    /\ clone_dir = NoClone
    /\ push = [p \in Pushes |-> IdlePush]
    /\ outbox = <<>>
    /\ pkt = NoPkt
    /\ http = NoHttp

\* the repository is empty (HEAD names no commit) or holds commit 100
RepoInit ==
    /\ bare_head \in {0, 100}
    /\ clone_dir \in {NoClone, [present |-> TRUE, head |-> 100, tree |-> 100]}
    /\ clone_dir.present => bare_head = 100
    /\ outbox = <<>>
    /\ pkt = NoPkt
    /\ http = NoHttp

PushInit ==
    /\ RepoInit
    /\ push \in [Pushes -> {[IdlePush EXCEPT !.req = req] : req \in PushRequests}]

PushGoto(p, pc) == push' = [push EXCEPT ![p].pc = pc]

\* return a response: the handler ends
PushReturn(p, res) == push' = [push EXCEPT ![p].pc = "done", ![p].res = res]

PushServiceRpc_IgnoresStatus(p) ==
    /\ push[p].pc = "idle"
    /\ push[p].req.rpc = "receive-pack"
    /\ \E git \in GitOutcomes :
         LET rpc == service_rpc("receive-pack", push[p].req.content_encoding,
                                push[p].req.body, git)
         IN IF rpc.res.content_length = "0"
            THEN push' = [push EXCEPT ![p].pc = "done", ![p].res = rpc.res]
            ELSE push' = [push EXCEPT ![p].pc = "resolve_head", ![p].res = rpc.res]
    /\ UNCHANGED <<bare_head, clone_dir, outbox, authVars, pktVars, queueVars>>

\* receive_pack_rpc: service_rpc("receive-pack", ..).await and the two
\* early returns, a status other than 200 or Content-Length: 0.  A run of
\* git receive-pack that succeeds moves the branch HEAD names to the pushed
\* commit, or updates another ref
PushServiceRpc(p) ==
    /\ push[p].pc = "idle"
    /\ push[p].req.rpc = "receive-pack"
    /\ \E git \in GitOutcomes, moves_head \in BOOLEAN :
         LET rpc == service_rpc("receive-pack", push[p].req.content_encoding,
                                push[p].req.body, git)
             runs == IF rpc.spawned THEN 1 ELSE 0
         IN IF rpc.res.status # 200 \/ rpc.res.content_length = "0"
            THEN /\ push' = [push EXCEPT ![p].pc = "done", ![p].res = rpc.res,
                                         ![p].git_runs = runs]
                 /\ UNCHANGED bare_head
            ELSE /\ bare_head' = IF moves_head THEN p ELSE bare_head
                 /\ push' = [push EXCEPT ![p].pc = "resolve_head",
                                         ![p].res = rpc.res,
                                         ![p].git_runs = runs,
                                         ![p].commit = IF moves_head THEN p ELSE 0]
    /\ UNCHANGED <<clone_dir, outbox, authVars, pktVars, queueVars>>

\* upload_pack_rpc: service_rpc("upload-pack", ..).await is the response
UploadPackRpc(p) ==
    /\ push[p].pc = "idle"
    /\ push[p].req.rpc = "upload-pack"
    /\ \E git \in GitOutcomes :
         LET rpc == service_rpc("upload-pack", push[p].req.content_encoding,
                                push[p].req.body, git)
         IN push' = [push EXCEPT ![p].pc = "done", ![p].res = rpc.res,
                                 ![p].git_runs = IF rpc.spawned THEN 1 ELSE 0]
    /\ UNCHANGED <<bare_head, clone_dir, outbox, authVars, pktVars, queueVars>>

PushResolveHead_Proceeds(p) ==
    /\ push[p].pc = "resolve_head"
    /\ push' = [push EXCEPT ![p].pc = "remove", ![p].head_commit_id = bare_head]
    /\ UNCHANGED <<bare_head, clone_dir, outbox, authVars, pktVars, queueVars>>

\* Repository::open_bare and revparse_single("HEAD"); 500 when either fails
PushResolveHead(p) ==
    /\ push[p].pc = "resolve_head"
    /\ \/ /\ bare_head # 0
          /\ push' = [push EXCEPT ![p].pc = "remove", ![p].head_commit_id = bare_head]
       \/ PushReturn(p, Response(500))
    /\ UNCHANGED <<bare_head, clone_dir, outbox, authVars, pktVars, queueVars>>

\* if container_src exists: remove_dir_all, a failure only logged
PushRemove(p) ==
    /\ push[p].pc = "remove"
    /\ \/ clone_dir' = NoClone
       \/ clone_dir.present /\ UNCHANGED clone_dir
    /\ PushGoto(p, "clone")
    /\ UNCHANGED <<bare_head, outbox, authVars, pktVars, queueVars>>

\* git2::Repository::clone(&path, &container_src): fails on a directory
\* that is there; the clone is checked out at the HEAD of the bare
\* repository as it is now
PushClone(p) ==
    /\ push[p].pc = "clone"
    /\ \/ /\ ~clone_dir.present
          /\ bare_head # 0
          /\ clone_dir' = [present |-> TRUE, head |-> bare_head, tree |-> bare_head]
          /\ PushGoto(p, "set_head")
       \/ /\ PushReturn(p, Response(500))
          /\ UNCHANGED clone_dir
    /\ UNCHANGED <<bare_head, outbox, authVars, pktVars, queueVars>>

\* cloned_repo.set_head_detached(head_commit_id); a failure is only logged
\* and skips the checkout
PushSetHead(p) ==
    /\ push[p].pc = "set_head"
    /\ \/ /\ clone_dir.present
          /\ clone_dir' = [clone_dir EXCEPT !.head = push[p].head_commit_id]
          /\ PushGoto(p, "checkout")
       \/ /\ UNCHANGED clone_dir
          /\ PushGoto(p, "send")
    /\ UNCHANGED <<bare_head, outbox, authVars, pktVars, queueVars>>

\* cloned_repo.checkout_head(force); a failure is only logged
PushCheckout(p) ==
    /\ push[p].pc = "checkout"
    /\ \/ /\ clone_dir.present
          /\ clone_dir' = [clone_dir EXCEPT !.tree = clone_dir.head]
          /\ push' = [push EXCEPT ![p].pc = "send", ![p].checked_out = TRUE]
       \/ /\ UNCHANGED clone_dir
          /\ PushGoto(p, "send")
    /\ UNCHANGED <<bare_head, outbox, authVars, pktVars, queueVars>>

PushSpawnSend_Awaits(p) ==
    /\ push[p].pc = "send"
    /\ enq_pc # "ended"
    /\ Len(receive_channel) < ChannelCapacity
    /\ receive_channel' = Append(receive_channel, PushItem(p))
    /\ push' = [push EXCEPT ![p].pc = "done", ![p].send = "ok"]
    /\ UNCHANGED <<bare_head, clone_dir, outbox, authVars, pktVars, cfgVars, sends,
                   qVars,
                   lockVars, pollVars, enqVars, storeVars, taskVars, build_count>>

\* tokio::spawn(build_channel.send(..)) and return res, the response of
\* service_rpc, without waiting for the send
PushSpawnSend(p) ==
    /\ push[p].pc = "send"
    /\ outbox' = Append(outbox, p)
    /\ push' = [push EXCEPT ![p].pc = "done", ![p].send = "spawned"]
    /\ UNCHANGED <<bare_head, clone_dir, authVars, pktVars, queueVars>>

\* a sequence without its i-th element
Without(seq, i) == SubSeq(seq, 1, i - 1) \o SubSeq(seq, i + 1, Len(seq))

\* the Receiver is owned by process_task_enqueue and dropped when it ends
ReceiverDropped == enq_pc = "ended"

PushSend_Unbounded ==
    /\ ~ReceiverDropped
    /\ \E i \in 1..Len(outbox) :
         /\ outbox' = Without(outbox, i)
         /\ receive_channel' = Append(receive_channel, PushItem(outbox[i]))
         /\ push' = [push EXCEPT ![outbox[i]].send = "ok"]
    /\ UNCHANGED <<bare_head, clone_dir, authVars, pktVars, cfgVars, sends, qVars,
                   lockVars, pollVars, enqVars, storeVars, taskVars, build_count>>

\* a spawned send gets through: the channel has room and the item is in it
PushSend ==
    /\ ~ReceiverDropped
    /\ Len(receive_channel) < ChannelCapacity
    /\ \E i \in 1..Len(outbox) :
         /\ outbox' = Without(outbox, i)
         /\ receive_channel' = Append(receive_channel, PushItem(outbox[i]))
         /\ push' = [push EXCEPT ![outbox[i]].send = "ok"]
    /\ UNCHANGED <<bare_head, clone_dir, authVars, pktVars, cfgVars, sends, qVars,
                   lockVars, pollVars, enqVars, storeVars, taskVars, build_count>>

\* a spawned send fails: the channel is closed, send returns Err and the
\* task ends with it; nothing holds the JoinHandle
PushSendFailed ==
    /\ ReceiverDropped
    /\ \E i \in 1..Len(outbox) :
         /\ outbox' = Without(outbox, i)
         /\ push' = [push EXCEPT ![outbox[i]].send = "err"]
    /\ UNCHANGED <<bare_head, clone_dir, authVars, pktVars, queueVars>>

(***************************************************************************)
(* router: route_layer(basic_auth) runs the middleware on every request    *)
(* of a /:owner/:repo/.. route; the handler runs inside next.run(request). *)
(***************************************************************************)
\* no request in this slot
NoPush == [IdlePush EXCEPT !.pc = "none"]

\* pushes of a pack to the repositories p and p.git of either owner
GateRequests ==
    { RpcRequest("receive-pack", owner, repo, "identity", Plain(Pack)) :
        owner \in {Alice, Bob}, repo \in {<<"p">>, <<"p">> \o DotGit} }

\* one request waits at the middleware
GateInit ==
    /\ RepoInit
    /\ \E req \in GateRequests :
         push = [p \in Pushes |-> IF p = 1
                                  THEN [IdlePush EXCEPT !.pc = "request", !.req = req]
                                  ELSE NoPush]

\* Err(auth_err) and Err(auth_failed): 401, WWW-Authenticate, Body::empty()
Unauthorized(realm) == [Response(401) EXCEPT !.realm = realm]

\* basic_auth on the request of p.  A panic of an unwrap ends the task of
\* the request: no response is written
PushAuth(p, header, store) ==
    /\ push[p].pc = "request"
    /\ LET req == [owner |-> push[p].req.owner, repo |-> push[p].req.repo,
                   header |-> header]
           answer == basic_auth(git_auth, api_tokens, store, req)
       IN /\ auth_request' = req
          /\ auth_response' = [status |-> answer, store |-> store]
          /\ push' = [push EXCEPT
                ![p].pc = IF answer = "next" THEN "idle" ELSE "done",
                ![p].res = IF answer = "401 git" THEN Unauthorized("git")
                           ELSE IF answer = "401 failed to login"
                           THEN Unauthorized("failed to login")
                           ELSE NoResponse]
    /\ UNCHANGED <<git_auth, api_tokens, pktVars, bare_head, clone_dir, outbox, queueVars>>

PushNext ==
    \/ \E p \in Pushes :
         \/ PushServiceRpc(p)
         \/ PushResolveHead(p)
         \/ PushRemove(p)
         \/ PushClone(p)
         \/ PushSetHead(p)
         \/ PushCheckout(p)
         \/ PushSpawnSend(p)
    \/ PushSend

(***************************************************************************)
(* BuildQueue::new                                                         *)
(***************************************************************************)
QueueIdle ==
    /\ capacity \in 1..MaxCapacity
    /\ sends = 0
    /\ waiting_queue = <<>>
    /\ waiting_set = {}
    /\ build_count = capacity
    /\ queue_lock = "free"
    /\ set_lock = "free"
    /\ poll_pc = "lock_queue"
    /\ poll_item = NoItem
    /\ enq_pc = "recv"
    /\ enq_msg = NoMsg
    /\ builds = [id \in BuildIds |-> NoRow]
    /\ domains = [project \in ProjectRows |-> <<>>]
    /\ task = [id \in BuildIds |-> NoTask]
    /\ hist = [id \in BuildIds |-> <<>>]
    /\ released = [id \in BuildIds |-> 0]
    /\ dropped = 0
    /\ handled = NoOutcome
    /\ appended = <<>>
    /\ dispatched = <<>>

\* mpsc::channel(32): nothing sent yet
QueueInit ==
    /\ QueueIdle
    /\ config_timeout \in TimeoutValues
    /\ receive_channel = <<>>

Init == QueueInit /\ AuthIdle /\ PushIdle

(***************************************************************************)
(* A producer: build_channel.send(item).await of receive_pack_rpc.  The    *)
(* send waits while the channel is full.                                   *)
(***************************************************************************)
Send(item) ==
    /\ sends < MaxSends
    /\ ~ReceiverDropped
    /\ Len(receive_channel) < ChannelCapacity
    /\ receive_channel' = Append(receive_channel, item)
    /\ sends' = sends + 1
    /\ UNCHANGED <<gitVars, cfgVars, qVars, lockVars, pollVars, enqVars, storeVars,
                   taskVars, build_count>>

(***************************************************************************)
(* process_task_enqueue                                                    *)
(***************************************************************************)
\* receive_channel.recv().await
EnqRecv ==
    /\ enq_pc = "recv"
    /\ receive_channel # <<>>
    /\ enq_msg' = Head(receive_channel)
    /\ receive_channel' = Tail(receive_channel)
    /\ enq_pc' = "lock_queue"
    /\ handled' = NoOutcome
    /\ UNCHANGED <<gitVars, cfgVars, sends, qVars, lockVars, pollVars, dropped,
                   appended, storeVars, taskVars, build_count>>

\* the task ends while it waits in recv (its future is dropped): the
\* Receiver goes with it, the channel closes and the buffered messages are
\* dropped
EnqEnd ==
    /\ enq_pc = "recv"
    /\ enq_pc' = "ended"
    /\ receive_channel' = <<>>
    /\ UNCHANGED <<gitVars, cfgVars, sends, qVars, lockVars, pollVars, enq_msg,
                   dropped, handled, appended, storeVars, taskVars, build_count>>

\* waiting_queue.lock().await
EnqLockQueue ==
    /\ enq_pc = "lock_queue"
    /\ queue_lock = "free"
    /\ queue_lock' = "enqueue"
    /\ enq_pc' = "lock_set"
    /\ UNCHANGED <<gitVars, cfgVars, chanVars, qVars, set_lock, pollVars, enq_msg,
                   dropped, handled, appended, storeVars, taskVars, build_count>>

\* waiting_set.lock().await
EnqLockSet ==
    /\ enq_pc = "lock_set"
    /\ set_lock = "free"
    /\ set_lock' = "enqueue"
    /\ enq_pc' = "locked"
    /\ UNCHANGED <<gitVars, cfgVars, chanVars, qVars, queue_lock, pollVars, enq_msg,
                   dropped, handled, appended, storeVars, taskVars, build_count>>

IsDuplicate_Never(set, container_name) == FALSE

\* waiting_set.contains(&container_name)
IsDuplicate(set, container_name) == container_name \in set

\* the generator gives the same id every time
NewBuildId_Fixed == CHOOSE id \in BuildIds : \A other \in BuildIds : id <= other

\* Uuid::from(Ulid::new()): an id no row has
NewBuildId == CHOOSE id \in BuildIds : builds[id].status = "absent"

SetInsert_Forgotten(set, container_name) == set

\* waiting_set.insert(build_item.container_name.clone())
SetInsert(set, container_name) == set \cup {container_name}

PushBack_Front(queue, build_item) == <<build_item>> \o queue

\* waiting_queue.push_back(build_item)
PushBack(queue, build_item) == Append(queue, build_item)

EnqDropGuards_Kept == UNCHANGED lockVars

\* the two MutexGuards are locals of the loop body: `continue` and the end
\* of the body drop them
EnqDropGuards == queue_lock' = "free" /\ set_lock' = "free"

\* the body of the loop, run holding both locks; every `continue` and the
\* end of the body drop both guards
EnqBody ==
    /\ enq_pc = "locked"
    /\ \E project \in ProjectAnswers(enq_msg.owner, enq_msg.repo),
          inserted \in BOOLEAN :
         IF project # "row"
         THEN \* project not found, or the query failed: continue
              /\ handled' = [msg |-> enq_msg,
                             outcome |->
                                 IF project = "err" THEN "store_err"
                                 ELSE IF <<enq_msg.owner, enq_msg.repo>> \in ProjectRows
                                 THEN "project_gone"
                                 ELSE "no_project"]
              /\ UNCHANGED <<qVars, storeVars, dropped, appended>>
         ELSE IF IsDuplicate(waiting_set, enq_msg.container_name)
         THEN \* continue
              /\ dropped' = dropped + 1
              /\ handled' = [msg |-> enq_msg, outcome |-> "duplicate"]
              /\ UNCHANGED <<qVars, storeVars, appended>>
         ELSE IF ~inserted
         THEN \* INSERT INTO builds failed: continue
              /\ handled' = [msg |-> enq_msg, outcome |-> "store_err"]
              /\ UNCHANGED <<qVars, storeVars, dropped, appended>>
         ELSE LET build_id == NewBuildId
                  build_item == [build_id |-> build_id,
                                 container_name |-> enq_msg.container_name,
                                 owner |-> enq_msg.owner,
                                 repo |-> enq_msg.repo]
              IN /\ builds' = [builds EXCEPT ![build_id] =
                                  [project |-> <<enq_msg.owner, enq_msg.repo>>,
                                   status |-> "pending", log |-> <<>>,
                                   finished_at |-> "null"]]
                 /\ hist' = [hist EXCEPT ![build_id] = <<"pending">>]
                 /\ waiting_set' = SetInsert(waiting_set, build_item.container_name)
                 /\ waiting_queue' = PushBack(waiting_queue, build_item)
                 /\ appended' = Append(appended, build_id)
                 /\ handled' = [msg |-> enq_msg, outcome |-> "queued"]
                 /\ UNCHANGED <<domains, dropped>>
    /\ EnqDropGuards
    /\ enq_pc' = "recv"
    /\ enq_msg' = NoMsg
    /\ UNCHANGED <<gitVars, cfgVars, chanVars, pollVars, taskVars, build_count>>

(***************************************************************************)
(* process_task_poll                                                       *)
(***************************************************************************)
\* waiting_queue.lock().await
PollLockQueue ==
    /\ poll_pc = "lock_queue"
    /\ queue_lock = "free"
    /\ queue_lock' = "poll"
    /\ poll_pc' = "lock_set"
    /\ UNCHANGED <<gitVars, cfgVars, chanVars, qVars, set_lock, poll_item, dispatched,
                   enqVars, storeVars, taskVars, build_count>>

\* waiting_set.lock().await
PollLockSet ==
    /\ poll_pc = "lock_set"
    /\ set_lock = "free"
    /\ set_lock' = "poll"
    /\ poll_pc' = "locked"
    /\ UNCHANGED <<gitVars, cfgVars, chanVars, qVars, queue_lock, poll_item, dispatched,
                   enqVars, storeVars, taskVars, build_count>>

PopFront_Back(queue) == queue[Len(queue)]

\* waiting_queue.pop_front(): the item the call returns
PopFront(queue) == Head(queue)

CanDispatch_IgnoresSlots(current_build_count, queue_len) == queue_len > 0

\* if current_build_count > 0 && queue_len > 0
CanDispatch(current_build_count, queue_len) ==
    current_build_count > 0 /\ queue_len > 0

SetRemove_Never(set, container_name) == set

SetRemove_Clears(set, container_name) == {}

\* waiting_set.remove(&build_item.container_name)
SetRemove(set, container_name) == set \ {container_name}

\* an idle iteration goes round with both guards still held
PollBody_KeepsGuards ==
    /\ poll_pc = "locked"
    /\ LET current_build_count == build_count
           queue_len == Len(waiting_queue)
       IN IF CanDispatch(current_build_count, queue_len)
          THEN /\ poll_item' = PopFront(waiting_queue)
               /\ waiting_queue' = Tail(waiting_queue)
               /\ waiting_set' = SetRemove(waiting_set, Head(waiting_queue).container_name)
               /\ poll_pc' = "dispatch"
               /\ queue_lock' = "free"
               /\ set_lock' = "free"
          ELSE /\ poll_pc' = "lock_queue"
               /\ UNCHANGED <<qVars, poll_item, lockVars>>
    /\ UNCHANGED dispatched
    /\ UNCHANGED <<gitVars, cfgVars, chanVars, enqVars, storeVars, taskVars, build_count>>

\* the locked part of one iteration: load the count, pop the head and
\* remove its name, or find nothing to do; either way drop both guards.
\* The 5 ms sleep that ends an idle iteration is part of this step.
PollBody ==
    /\ poll_pc = "locked"
    /\ LET current_build_count == build_count
           queue_len == Len(waiting_queue)
       IN IF CanDispatch(current_build_count, queue_len)
          THEN /\ poll_item' = PopFront(waiting_queue)
               /\ waiting_queue' = Tail(waiting_queue)
               /\ waiting_set' = SetRemove(waiting_set, Head(waiting_queue).container_name)
               /\ poll_pc' = "dispatch"
          ELSE /\ poll_pc' = "lock_queue"
               /\ UNCHANGED <<qVars, poll_item>>
    /\ queue_lock' = "free"
    /\ set_lock' = "free"
    /\ UNCHANGED dispatched
    /\ UNCHANGED <<gitVars, cfgVars, chanVars, enqVars, storeVars, taskVars, build_count>>

FetchSub_Forgotten(count) == count

\* build_count.fetch_sub(1, Ordering::SeqCst): wraps at 0
FetchSub(count) == IF count = 0 THEN UsizeMax ELSE count - 1

FetchAdd_Forgotten(count) == count

FetchAdd_Twice(count) == count + 2

\* build_count.fetch_add(1, Ordering::SeqCst): wraps at usize::MAX
FetchAdd(count) == IF count = UsizeMax THEN 0 ELSE count + 1

BuildTimeoutSecs_Millis(timeout_ms) == timeout_ms

\* Duration::from_secs(config.build.timeout as u64 / 1000).as_secs()
BuildTimeoutSecs(timeout_ms) == timeout_ms \div 1000

\* after the guards are dropped: take the slot and spawn the build task;
\* the 5 ms sleep that ends the iteration is part of this step
PollDispatch ==
    /\ poll_pc = "dispatch"
    /\ build_count' = FetchSub(build_count)
    /\ task' = [task EXCEPT ![poll_item.build_id] =
                   [NoTask EXCEPT !.pc = "lookup", !.item = poll_item,
                                  !.build_timeout = BuildTimeoutSecs(config_timeout)]]
    /\ dispatched' = Append(dispatched, poll_item.build_id)
    /\ poll_item' = NoItem
    /\ poll_pc' = "lock_queue"
    /\ UNCHANGED <<gitVars, cfgVars, chanVars, qVars, lockVars, enqVars, storeVars,
                   released>>

(***************************************************************************)
(* The spawned build task: timeout(build_timeout, trigger_build(..)), the  *)
(* match on its result, and the release of the slot.  task[id].pc is the   *)
(* await the task is suspended at.                                         *)
(***************************************************************************)
TimeoutMsg_NoPrefix(secs) == <<"Timeout after ", secs, " seconds">>

\* format!("Build timeout after {} seconds", build_timeout.as_secs())
TimeoutMsg(secs) == <<"Build timeout after ", secs, " seconds">>

\* result.build_log of build_docker
BuildLog == <<"build log">>

\* err.to_string() of build_docker's error
BuilderErrorMsg == <<"builder error">>

UpdateBuild_NoRow(id, status, log) == UNCHANGED <<builds, hist>>

\* UPDATE builds SET status = .., log = .. WHERE id = ..
UpdateBuild(id, status, log) ==
    /\ builds' = [builds EXCEPT ![id].status = status, ![id].log = log]
    /\ hist' = [hist EXCEPT ![id] = Append(@, status)]

UpdateBuilding_Skipped(id) == UNCHANGED <<builds, hist>>

\* UPDATE builds set status = 'building' where id = ..
UpdateBuilding(id) ==
    /\ builds' = [builds EXCEPT ![id].status = "building"]
    /\ hist' = [hist EXCEPT ![id] = Append(@, "building")]

Goto(id, pc) == task' = [task EXCEPT ![id].pc = pc]

\* a store update that failed: the row keeps what it held
StoreFailed(id, pc) ==
    task' = [task EXCEPT ![id].pc = pc, ![id].store_err = TRUE]

\* trigger_build: load the project row, verify the build record exists;
\* either `?` returns Err to the task
TaskLookup(id) ==
    /\ task[id].pc = "lookup"
    /\ \E project \in ProjectAnswers(task[id].item.owner, task[id].item.repo),
          build \in (IF builds[id].status # "absent" THEN {"row"} ELSE {"none"})
                    \cup {"err"} :
         IF project = "row" /\ build = "row"
         THEN Goto(id, "set_building")
         ELSE Goto(id, "release")
    /\ UNCHANGED <<gitVars, cfgVars, chanVars, qVars, lockVars, pollVars, enqVars,
                   storeVars, released, build_count>>

\* trigger_build: status := building
TaskSetBuilding(id) ==
    /\ task[id].pc = "set_building"
    /\ \/ /\ UpdateBuilding(id)
          /\ Goto(id, "builder")
       \/ /\ Goto(id, "release")
          /\ UNCHANGED <<builds, hist>>
    /\ UNCHANGED <<gitVars, cfgVars, chanVars, qVars, lockVars, pollVars, enqVars,
                   domains, released, build_count>>

\* build_docker(..).await returns Ok(result) or Err(err); a builder that
\* never returns takes neither step
TaskBuilder(id) ==
    /\ task[id].pc = "builder"
    /\ \/ task' = [task EXCEPT ![id].pc = "update_successful", ![id].builder = "ok"]
       \/ task' = [task EXCEPT ![id].pc = "update_failed", ![id].builder = "err"]
    /\ UNCHANGED <<gitVars, cfgVars, chanVars, qVars, lockVars, pollVars, enqVars,
                   storeVars, released, build_count>>

\* Ok(result): UPDATE builds SET status = 'successful', log = build_log
TaskUpdateSuccessful(id) ==
    /\ task[id].pc = "update_successful"
    /\ \/ /\ UpdateBuild(id, "successful", BuildLog)
          /\ Goto(id, "domain_select")
       \/ /\ StoreFailed(id, "release")
          /\ UNCHANGED <<builds, hist>>
    /\ UNCHANGED <<gitVars, cfgVars, chanVars, qVars, lockVars, pollVars, enqVars,
                   domains, released, build_count>>

\* the Err arm writes what the Ok arm writes
TaskUpdateFailed_AsSuccessful(id) ==
    /\ task[id].pc = "update_failed"
    /\ UpdateBuild(id, "successful", BuildLog)
    /\ Goto(id, "release")
    /\ UNCHANGED <<gitVars, cfgVars, chanVars, qVars, lockVars, pollVars, enqVars,
                   domains, released, build_count>>

\* Err(err): UPDATE builds SET status = 'failed', log = err.to_string();
\* trigger_build returns Err whether or not the update went through
TaskUpdateFailed(id) ==
    /\ task[id].pc = "update_failed"
    /\ \/ /\ UpdateBuild(id, "failed", BuilderErrorMsg)
          /\ Goto(id, "release")
       \/ /\ StoreFailed(id, "release")
          /\ UNCHANGED <<builds, hist>>
    /\ UNCHANGED <<gitVars, cfgVars, chanVars, qVars, lockVars, pollVars, enqVars,
                   domains, released, build_count>>

\* SELECT domains.name FROM domains WHERE domains.project_id = ..
TaskDomainSelect(id) ==
    /\ task[id].pc = "domain_select"
    /\ \/ IF domains[builds[id].project] # <<>>
          THEN Goto(id, "release")
          ELSE Goto(id, "domain_insert")
       \/ Goto(id, "release")
    /\ UNCHANGED <<gitVars, cfgVars, chanVars, qVars, lockVars, pollVars, enqVars,
                   storeVars, released, build_count>>

\* INSERT INTO domains (id, project_id, name, port, docker_ip)
TaskDomainInsert(id) ==
    /\ task[id].pc = "domain_insert"
    /\ \/ domains' = [domains EXCEPT ![builds[id].project] =
                                Append(@, task[id].item.container_name)]
       \/ UNCHANGED domains
    /\ Goto(id, "release")
    /\ UNCHANGED <<gitVars, cfgVars, chanVars, qVars, lockVars, pollVars, enqVars,
                   builds, hist, released, build_count>>

\* the awaits of trigger_build, where the timeout can cut it off
TriggerBuildAwaits ==
    {"lookup", "set_building", "builder", "update_successful", "update_failed",
     "domain_select", "domain_insert"}

\* timeout(build_timeout, trigger_build(..)) elapses while trigger_build is
\* suspended: the future is dropped and the task takes the Err(_) arm
TaskTimeout(id) ==
    /\ task[id].pc \in TriggerBuildAwaits
    /\ task' = [task EXCEPT ![id].pc = "timeout_update",
                             ![id].cut_builder = (task[id].pc = "builder"),
                             ![id].builder = "none"]
    /\ UNCHANGED <<gitVars, cfgVars, chanVars, qVars, lockVars, pollVars, enqVars,
                   storeVars, released, build_count>>

\* the Err(_) arm only logs the timeout
TaskTimeoutUpdate_LogOnly(id) ==
    /\ task[id].pc = "timeout_update"
    /\ Goto(id, "release")
    /\ UNCHANGED <<gitVars, cfgVars, chanVars, qVars, lockVars, pollVars, enqVars,
                   storeVars, released, build_count>>

\* Err(_timeout_error): UPDATE builds SET status = 'failed', log = timeout_msg
TaskTimeoutUpdate(id) ==
    /\ task[id].pc = "timeout_update"
    /\ \/ /\ UpdateBuild(id, "failed", TimeoutMsg(task[id].build_timeout))
          /\ Goto(id, "release")
       \/ /\ StoreFailed(id, "release")
          /\ UNCHANGED <<builds, hist>>
    /\ UNCHANGED <<gitVars, cfgVars, chanVars, qVars, lockVars, pollVars, enqVars,
                   domains, released, build_count>>

\* the slot is given back in the Ok(Ok(_)) arm only
TaskRelease_OnSuccessOnly(id) ==
    /\ task[id].pc = "release"
    /\ IF builds[id].status = "successful"
       THEN /\ build_count' = build_count + 1
            /\ released' = [released EXCEPT ![id] = @ + 1]
       ELSE UNCHANGED <<build_count, released>>
    /\ task' = [task EXCEPT ![id].pc = "done", ![id].builder = "none"]
    /\ UNCHANGED <<gitVars, cfgVars, chanVars, qVars, lockVars, pollVars, enqVars,
                   storeVars>>

\* build_count.fetch_add(1, Ordering::SeqCst), the last step of the task
TaskRelease(id) ==
    /\ task[id].pc = "release"
    /\ build_count' = FetchAdd(build_count)
    /\ released' = [released EXCEPT ![id] = @ + 1]
    /\ task' = [task EXCEPT ![id].pc = "done", ![id].builder = "none"]
    /\ UNCHANGED <<gitVars, cfgVars, chanVars, qVars, lockVars, pollVars, enqVars,
                   storeVars>>

TaskStep(id) ==
    \/ TaskLookup(id)
    \/ TaskSetBuilding(id)
    \/ TaskBuilder(id)
    \/ TaskUpdateSuccessful(id)
    \/ TaskUpdateFailed(id)
    \/ TaskDomainSelect(id)
    \/ TaskDomainInsert(id)
    \/ TaskTimeout(id)
    \/ TaskTimeoutUpdate(id)
    \/ TaskRelease(id)

(***************************************************************************)
(* build_queue_handler: the two tasks, the producers and the build tasks.  *)
(***************************************************************************)
Next ==
    \/ \E item \in BuildQueueItems : Send(item)
    \/ EnqRecv
    \/ EnqLockQueue
    \/ EnqLockSet
    \/ EnqBody
    \/ PollLockQueue
    \/ PollLockSet
    \/ PollBody
    \/ PollDispatch
    \/ \E id \in BuildIds : TaskStep(id)

Spec == Init /\ [][Next]_vars

\* basic_auth alone: the queue and the push handlers stay as constructed
AuthSpecInit == QueueInit /\ capacity = 1 /\ AuthInit /\ PushIdle

AuthSpec == AuthSpecInit /\ [][AuthNext]_vars

\* the receive_pack_rpc handlers alone
PushSpecInit == QueueInit /\ capacity = 1 /\ AuthIdle /\ PushInit

PushSpec == PushSpecInit /\ [][PushNext]_vars

\* one request of any kind to git-upload-pack or git-receive-pack
RpcSpecInit ==
    /\ QueueInit /\ capacity = 1
    /\ AuthIdle
    /\ RepoInit
    /\ \E req \in RpcRequests :
         push = [p \in Pushes |-> IF p = 1 THEN [IdlePush EXCEPT !.req = req]
                                  ELSE NoPush]

RpcNext ==
    \/ PushNext
    \/ \E p \in Pushes : UploadPackRpc(p)

RpcSpec == RpcSpecInit /\ [][RpcNext]_vars

\* a push of a pack to /a/p or to /a/p.git
PipelineRequests ==
    { RpcRequest("receive-pack", Alice, repo, "identity", Plain(Pack)) :
        repo \in {<<"p">>, <<"p">> \o DotGit} }

\* one push of a pack from the handler to the end of its build
PipelineSpecInit ==
    /\ QueueInit
    /\ AuthIdle
    /\ RepoInit
    /\ \E req \in PipelineRequests :
         push = [p \in Pushes |-> IF p = 1 THEN [IdlePush EXCEPT !.req = req]
                                  ELSE NoPush]

PipelineNext ==
    \/ PushNext
    \/ EnqRecv
    \/ EnqLockQueue
    \/ EnqLockSet
    \/ EnqBody
    \/ PollLockQueue
    \/ PollLockSet
    \/ PollBody
    \/ PollDispatch
    \/ \E id \in BuildIds : TaskStep(id)

PipelineSpec == PipelineSpecInit /\ [][PipelineNext]_vars

\* one request from the router to the enqueue task
GateSpecInit == QueueInit /\ capacity = 1 /\ AuthInit /\ GateInit

GateNext ==
    \/ \E header \in AuthHeaders, store \in {"rows", "RowNotFound", "err"} :
         PushAuth(1, header, store)
    \/ PushNext
    \/ EnqRecv
    \/ EnqLockQueue
    \/ EnqLockSet
    \/ EnqBody

GateSpec == GateSpecInit /\ [][GateNext]_vars

\* the channel filled by 32 earlier pushes process_task_enqueue has yet to
\* receive
Backlog == [i \in 1..ChannelCapacity |-> BuildQueueItemOf(Alice, <<"p">>)]

\* one push of a pack or a probe, the channel empty or full, and the task
\* that receives from it free to run or to end
ReplySpecInit ==
    /\ QueueIdle /\ capacity = 1
    /\ config_timeout \in TimeoutValues
    /\ receive_channel \in {<<>>, Backlog}
    /\ AuthIdle
    /\ RepoInit
    /\ \E req \in PushRequests :
         push = [p \in Pushes |-> IF p = 1 THEN [IdlePush EXCEPT !.req = req]
                                  ELSE NoPush]

ReplyNext ==
    \/ PushNext
    \/ PushSendFailed
    \/ EnqRecv
    \/ EnqEnd
    \/ EnqLockQueue
    \/ EnqLockSet
    \/ EnqBody

ReplySpec == ReplySpecInit /\ [][ReplyNext]_vars

\* the queue with one slot under each configured timeout
TimerSpecInit ==
    /\ QueueIdle /\ capacity = 1
    /\ config_timeout \in TimerValues
    /\ receive_channel = <<>>
    /\ AuthIdle
    /\ PushIdle

TimerSpec == TimerSpecInit /\ [][Next]_vars

\* one call of packet_write or packet_flush, no request under way
PktSpecInit ==
    /\ QueueInit /\ capacity = 1
    /\ AuthIdle
    /\ bare_head = 0
    /\ clone_dir = NoClone
    /\ push = [p \in Pushes |-> NoPush]
    /\ outbox = <<>>
    /\ http = NoHttp
    /\ PktInit

PktNext == PacketWrite \/ PacketFlush

PktSpec == PktSpecInit /\ [][PktNext]_vars

\* tokio runs every spawned task that can make progress: the two loops and
\* each build task, whose store calls return and whose timer fires
LiveSpec ==
    /\ Spec
    /\ WF_vars(EnqRecv \/ EnqLockQueue \/ EnqLockSet \/ EnqBody)
    /\ WF_vars(PollLockQueue \/ PollLockSet \/ PollBody \/ PollDispatch)
    /\ \A id \in BuildIds : WF_vars(TaskStep(id))

(***************************************************************************)
(* Vocabulary of the properties.                                           *)
(***************************************************************************)
\* build tasks that took a slot (fetch_sub) and have not given it back
SlotHolders == {id \in BuildIds : task[id].pc \notin {"none", "done"}}

\* the BuildItem popped from the queue whose task is not spawned yet
Popped == IF poll_pc = "dispatch" THEN {poll_item.build_id} ELSE {}

\* builds dispatched (popped from the queue) and not finished
InFlight == SlotHolders \cup Popped

Spawned == {id \in BuildIds : task[id].pc # "none"}

Rows == {id \in BuildIds : builds[id].status # "absent"}

QueuedNames == {waiting_queue[i].container_name : i \in 1..Len(waiting_queue)}

QueuedAs(name) == {i \in 1..Len(waiting_queue) : waiting_queue[i].container_name = name}

\* the builds of a container name that are running
RunningAs(name) == {id \in SlotHolders : task[id].item.container_name = name}

ContainerNames == {item.container_name : item \in BuildQueueItems}

IsPrefix(s, t) == Len(s) <= Len(t) /\ \A i \in 1..Len(s) : s[i] = t[i]

\* nothing is left to do: no message in flight, queue empty, no build running
Drained ==
    /\ receive_channel = <<>>
    /\ enq_pc = "recv"
    /\ waiting_queue = <<>>
    /\ InFlight = {}

(***************************************************************************)
(* C1  Bounded concurrency: the builds dispatched and not yet released     *)
(* never number more than the capacity, and once everything has drained    *)
(* build_count is the capacity again.                                      *)
(***************************************************************************)
C1_BoundedConcurrency ==
    /\ Cardinality(InFlight) <= capacity
    /\ Drained => build_count = capacity

\* a burst of more distinct-name items than the capacity was built and drained
C1_Witness ==
    /\ Drained
    /\ Cardinality({id \in BuildIds : task[id].pc = "done"}) > capacity
    /\ \A a, b \in Spawned :
          a # b => task[a].item.container_name # task[b].item.container_name
    /\ build_count = capacity

(***************************************************************************)
(* C2  Build state monotonicity, as claimed: the statuses written to a     *)
(* build row are a prefix of pending, building, successful or of pending,  *)
(* building, failed.  The timeout wraps all of trigger_build, so it can    *)
(* fire before 'building' is written or after 'successful' was.            *)
(***************************************************************************)
C2_StatusMonotone ==
    \A id \in BuildIds :
        \/ IsPrefix(hist[id], <<"pending", "building", "successful">>)
        \/ IsPrefix(hist[id], <<"pending", "building", "failed">>)

\* a terminal status overwritten: successful, then failed by the timeout arm
C2_Overwritten ==
    \E id \in BuildIds :
        hist[id] = <<"pending", "building", "successful", "failed">>

(***************************************************************************)
(* C3  Dedup, as claimed: a container name is never queued while a build   *)
(* of that name is running, nor built twice at once.  process_task_poll    *)
(* removes the name from waiting_set when it pops the item, so the claim   *)
(* holds of the queue alone.                                               *)
(***************************************************************************)
C3_OnePerNameQueuedOrInFlight ==
    \A name \in ContainerNames :
        Cardinality(QueuedAs(name)) + Cardinality(RunningAs(name)) <= 1

\* amended: at most one BuildItem of a name is in waiting_queue
C3_OnePerNameQueued ==
    \A name \in ContainerNames : Cardinality(QueuedAs(name)) <= 1

\* two messages of one name were handled with nothing dispatched: one is
\* queued, the other was dropped
C3_Witness ==
    /\ sends = 2
    /\ receive_channel = <<>>
    /\ enq_pc = "recv"
    /\ dropped = 1
    /\ Spawned = {}
    /\ \E name \in ContainerNames : Cardinality(QueuedAs(name)) = 1

C7_BuildingHoldsSlot ==
    \A id \in BuildIds : builds[id].status = "building" => id \in SlotHolders

\* amended: ... or the UPDATE of its terminal status failed
C7_BuildingHoldsSlotOrStoreFailed ==
    \A id \in BuildIds :
        builds[id].status = "building" =>
            /\ id \in Spawned
            /\ id \in SlotHolders \/ task[id].store_err

\* the builder failed or was cut off, the row is still building, the slot held
C7_Witness ==
    \E id \in BuildIds :
        /\ builds[id].status = "building"
        /\ task[id].pc \in {"update_failed", "timeout_update"}
        /\ build_count = capacity - 1

(***************************************************************************)
(* C8  Every dispatched build gives its slot back, exactly once, whatever  *)
(* the outcome.                                                            *)
(***************************************************************************)
C8_SlotReleasedOnce ==
    /\ [](\A id \in BuildIds : released[id] <= 1)
    /\ [](\A id \in BuildIds : task[id].pc = "done" => released[id] = 1)
    /\ \A id \in BuildIds : (id \in Spawned) ~> (released[id] = 1)

\* a build whose store update failed has released its slot
C8_Witness ==
    \E id \in BuildIds :
        /\ task[id].store_err
        /\ released[id] = 1
        /\ build_count = capacity

(***************************************************************************)
(* C9  Queue dedup: a message whose container name is in the queue is      *)
(* dropped: the step of process_task_enqueue that handles it leaves the    *)
(* queue, the name set and the builds table as they are and dispatches     *)
(* nothing; every row belongs to exactly one item queued or dispatched.    *)
(***************************************************************************)
C9_DuplicateDropped ==
    /\ [][(/\ enq_pc = "locked"
           /\ enq_pc' = "recv"
           /\ enq_msg.container_name \in QueuedNames)
          => UNCHANGED <<waiting_queue, waiting_set, builds, task>>]_vars
    /\ [](Cardinality(Rows) = Len(waiting_queue) + Cardinality(Popped)
                                + Cardinality(Spawned))

\* two messages, the second dropped as a duplicate: one row, one dispatch
C9_Witness ==
    /\ sends = 2
    /\ dropped = 1
    /\ Cardinality(Rows) = 1
    /\ Cardinality(Spawned) = 1
    /\ Drained

(***************************************************************************)
(* C10  Timeout, as claimed: a build whose builder was cut off by the      *)
(* timeout ends failed with a log starting "Build timeout after ".  The    *)
(* UPDATE of the timeout arm can fail; the row then stays building.        *)
(***************************************************************************)
C10_TimeoutFails ==
    \A id \in BuildIds :
        (task[id].cut_builder /\ task[id].pc = "done") =>
            /\ builds[id].status = "failed"
            /\ Len(builds[id].log) > 0
            /\ builds[id].log[1] = "Build timeout after "

\* amended: ... when the UPDATE of the timeout arm succeeds; the builder's
\* result is never written
C10_TimeoutFailsUnlessStoreFails ==
    \A id \in BuildIds :
        (task[id].cut_builder /\ task[id].pc \in {"release", "done"}) =>
            IF task[id].store_err
            THEN builds[id].status = "building" /\ hist[id] = <<"pending", "building">>
            ELSE /\ builds[id].status = "failed"
                 /\ Len(builds[id].log) > 0
                 /\ builds[id].log[1] = "Build timeout after "
                 /\ hist[id] = <<"pending", "building", "failed">>

C10_Witness ==
    \E id \in BuildIds :
        /\ task[id].cut_builder
        /\ task[id].pc = "done"
        /\ builds[id].status = "failed"
        /\ builds[id].log = <<"Build timeout after ", 2, " seconds">>

(***************************************************************************)
(* C5  As claimed: with git_auth on and the store answering, a request     *)
(* reaches the handler only when a row has the project name of the repo    *)
(* (trailing .git removed), the owner the request is addressed to and the  *)
(* supplied token, and it does reach it when such a row exists and the     *)
(* credentials name that owner.  basic_auth ignores the :owner segment of  *)
(* the path and takes the owner from the credentials.                      *)
(***************************************************************************)
C5_RowOfPathOwner ==
    \E rec \in api_tokens :
        /\ rec.project_name = StripDotGit(auth_request.repo)
        /\ rec.project_owner = auth_request.owner
        /\ rec.token = AuthToken(auth_request.header.text)

C5_AuthByPathOwner ==
    (git_auth /\ auth_response.store = "rows" /\ auth_request.header.kind = "Basic") =>
        /\ auth_response.status = "next" => C5_RowOfPathOwner
        /\ (C5_RowOfPathOwner
               /\ AuthOwnerName(auth_request.header.text) = auth_request.owner)
             => auth_response.status = "next"

\* alice's credentials open bob's repository of the same name
C5_CrossOwner ==
    /\ git_auth
    /\ auth_request.owner = Bob
    /\ AuthOwnerName(auth_request.header.text) = Alice
    /\ auth_response.status = "next"
    /\ ~\E rec \in api_tokens :
            rec.project_owner = Bob /\ rec.project_name = StripDotGit(auth_request.repo)

(***************************************************************************)
(* C6  Working-copy invariant, as claimed: once every push has returned    *)
(* and each got 200, the clone is at the commit HEAD of the bare           *)
(* repository resolves to.  A handler that resolved HEAD before another    *)
(* push was received can detach the clone to that older commit after the   *)
(* other handler has synced.                                               *)
(***************************************************************************)
C6_CloneAtBareHead ==
    (/\ \A p \in Pushes : push[p].pc = "done" /\ push[p].res.status = 200
     /\ \E p \in Pushes : push[p].head_commit_id # 0)
    => (clone_dir.present /\ clone_dir.head = bare_head)

\* both pushes answered 200, the clone is checked out at the older commit
C6_StaleClone ==
    /\ \A p \in Pushes : /\ push[p].pc = "done"
                         /\ push[p].res.status = 200
                         /\ push[p].checked_out
    /\ clone_dir.present
    /\ clone_dir.head = clone_dir.tree
    /\ clone_dir.head # bare_head

(***************************************************************************)
(* C11  As claimed: a push of a pack that was answered 200, to an existing *)
(* project named with or without the trailing .git, with nothing queued    *)
(* and the store answering, gets one build row and is queued; the row goes *)
(* pending, building, successful when the builder succeeds and the build   *)
(* runs to its end.  receive_pack_rpc sends the :repo segment as it came   *)
(* and process_task_enqueue looks the project up by that string, so the    *)
(* item of a push to <repo>.git finds no project and is dropped.           *)
(***************************************************************************)
C11_PushEnqueuesBuild ==
    /\ (/\ push[1].pc = "done" /\ push[1].res.status = 200
        /\ handled.outcome \notin {"none", "store_err", "project_gone", "duplicate"}
        /\ <<handled.msg.owner, StripDotGit(handled.msg.repo)>> \in ProjectRows)
       => /\ handled.outcome = "queued"
          /\ Cardinality(Rows) = 1
          /\ \A id \in Rows :
                builds[id].project = <<handled.msg.owner, StripDotGit(handled.msg.repo)>>
    /\ \A id \in BuildIds :
         (task[id].pc = "release" /\ task[id].builder = "ok" /\ ~task[id].store_err)
         => hist[id] = <<"pending", "building", "successful">>

\* the push to /a/p.git was answered 200 and its item dropped: alice's
\* project p has no build row
C11_DotGitDropped ==
    /\ push[1].pc = "done" /\ push[1].res.status = 200
    /\ push[1].req.repo = <<"p">> \o DotGit
    /\ handled.msg = BuildQueueItemOf(Alice, <<"p">> \o DotGit)
    /\ handled.outcome = "no_project"
    /\ <<Alice, <<"p">>>> \in ProjectRows
    /\ Rows = {}

(***************************************************************************)
(* C12  As claimed: no project ever has more than one row in domains.      *)
(* trigger_build reads the project's domain and inserts one when it found  *)
(* none, as two statements; two builds of one project that run at once     *)
(* can both find none and both insert.                                     *)
(***************************************************************************)
C12_OneDomainPerProject ==
    \A project \in ProjectRows : Len(domains[project]) <= 1

\* two successful builds of one project ran at once and each inserted a row
C12_TwoDomains ==
    \E a, b \in BuildIds :
        /\ a # b
        /\ builds[a].project = builds[b].project
        /\ builds[a].status = "successful" /\ builds[b].status = "successful"
        /\ task[a].pc = "done" /\ task[b].pc = "done"
        /\ Len(domains[builds[a].project]) = 2

(***************************************************************************)
(* C13  As claimed: with git_auth on, a request whose owner (the one it is *)
(* addressed to), repo and token match no row is answered 401 with realm   *)
(* "failed to login" and nothing of the handler happens: no git process,   *)
(* the repository and its clone are untouched, no BuildQueueItem is sent,  *)
(* no build row is inserted.  basic_auth matches the rows of the owner     *)
(* named in the credentials, so such a request can reach the handler.      *)
(***************************************************************************)
C13_Unmatched ==
    /\ git_auth
    /\ auth_request.header.kind = "Basic"
    /\ auth_response.store = "rows"
    /\ ~C5_RowOfPathOwner

C13_UnmatchedRejected ==
    /\ [](C13_Unmatched =>
            /\ push[1].pc = "done"
            /\ push[1].res = Unauthorized("failed to login")
            /\ push[1].git_runs = 0
            /\ outbox = <<>> /\ receive_channel = <<>> /\ enq_msg = NoMsg
            /\ Rows = {})
    /\ [][C13_Unmatched => UNCHANGED <<bare_head, clone_dir>>]_vars

\* a push to b's repository with a's token was received and synced, and
\* its item reached the enqueue task
C13_CrossOwnerPush ==
    /\ C13_Unmatched
    /\ auth_request.owner = Bob
    /\ push[1].pc = "done"
    /\ push[1].res.status = 200
    /\ push[1].git_runs = 1
    /\ clone_dir.present /\ clone_dir.head = 1
    /\ handled.msg.owner = Bob

(***************************************************************************)
(* C14  As claimed: with git_auth on, a request with no Authorization      *)
(* header, with another scheme, or with a Basic payload that is not        *)
(* base64 or not UTF-8 is answered 401 with realm "git" and an empty body, *)
(* and the handler is not run.  The two decoding steps are unwrapped: a    *)
(* malformed payload panics and no response is written.                    *)
(***************************************************************************)
C14_MalformedRejected ==
    (/\ git_auth
     /\ auth_response.status # ""
     /\ auth_request.header.kind \in {"none", "Bearer", "bad_base64", "bad_utf8"})
    => /\ push[1].pc = "done"
       /\ push[1].res = Unauthorized("git")
       /\ push[1].res.body = <<>>
       /\ push[1].git_runs = 0

\* a Basic payload that does not decode: the request got no response
C14_DecodePanics ==
    /\ git_auth
    /\ auth_request.header.kind \in {"bad_base64", "bad_utf8"}
    /\ auth_response.status = "panic"
    /\ push[1].pc = "done"
    /\ push[1].res = NoResponse

(***************************************************************************)
(* C15  A POST to git-upload-pack or git-receive-pack whose body, inflated *)
(* when Content-Encoding is gzip, is the four bytes 0000 is answered 200   *)
(* with an empty body and Content-Length: 0, and no git process is         *)
(* spawned; on git-receive-pack the handler returns at once: HEAD is not   *)
(* resolved, the repository and the clone stay as they are and no          *)
(* BuildQueueItem is sent.                                                 *)
(***************************************************************************)
C15_IsProbe(req) ==
    \/ req.content_encoding = "gzip" /\ req.body = Gzip(Probe)
    \/ req.content_encoding # "gzip" /\ req.body = Plain(Probe)

C15_ProbeShortcut ==
    /\ [](\A p \in Pushes :
            (push[p].pc # "none" /\ C15_IsProbe(push[p].req)) =>
                /\ push[p].pc \in {"idle", "done"}
                /\ push[p].git_runs = 0
                /\ push[p].head_commit_id = 0
                /\ outbox = <<>> /\ receive_channel = <<>>
                /\ push[p].pc = "done" =>
                      /\ push[p].res.status = 200
                      /\ push[p].res.body = <<>>
                      /\ push[p].res.content_length = "0")
    /\ [][(\E p \in Pushes : push[p].pc # "none" /\ C15_IsProbe(push[p].req))
            => UNCHANGED <<bare_head, clone_dir>>]_vars

\* a gzip-encoded probe on git-receive-pack was answered; the clone that
\* was there is as it was
C15_Witness ==
    /\ push[1].req.rpc = "receive-pack"
    /\ push[1].req.content_encoding = "gzip"
    /\ push[1].req.body = Gzip(Probe)
    /\ push[1].pc = "done"
    /\ push[1].res = [Response(200) EXCEPT !.content_length = "0"]
    /\ clone_dir = [present |-> TRUE, head |-> 100, tree |-> 100]

(***************************************************************************)
(* C16  As claimed: when build_docker returned an error and trigger_build  *)
(* has returned it to the task, the push was answered 200 and the build    *)
(* row is failed with the error message as its log; the task then ends     *)
(* and build_count is the capacity again.  The UPDATE that writes the row  *)
(* can fail: the row is then left as it was.                               *)
(***************************************************************************)
C16_BuilderErrorFails ==
    \A id \in BuildIds :
        (task[id].builder = "err" /\ task[id].pc = "release") =>
            /\ push[1].pc = "done" /\ push[1].res.status = 200
            /\ builds[id].status = "failed"
            /\ builds[id].log = BuilderErrorMsg

\* amended: the row is failed with the error message when the UPDATE went
\* through, and still building when it failed.  The push was answered 200
\* and the slot is given back in both cases.
C16_BuilderErrorFailsUnlessStoreFails ==
    /\ [](\A id \in BuildIds :
            (task[id].builder = "err" /\ task[id].pc = "release") =>
                /\ push[1].pc = "done"
                /\ push[1].res = [Response(200) EXCEPT !.body = GitStdout]
                /\ IF task[id].store_err
                   THEN /\ builds[id].status = "building" /\ builds[id].log = <<>>
                        /\ hist[id] = <<"pending", "building">>
                   ELSE /\ builds[id].status = "failed"
                        /\ builds[id].log = BuilderErrorMsg
                        /\ hist[id] = <<"pending", "building", "failed">>)
    /\ [][\A id \in BuildIds :
            (task[id].builder = "err" /\ task[id].pc = "release"
                                     /\ task'[id].pc = "done")
            => /\ released'[id] = 1
               /\ build_count' = capacity
               /\ UNCHANGED builds]_vars

\* the builder failed, trigger_build has returned: the row is failed with
\* the builder's message
C16_Witness ==
    \E id \in BuildIds :
        /\ task[id].builder = "err" /\ task[id].pc = "release"
        /\ ~task[id].store_err
        /\ builds[id].status = "failed"
        /\ builds[id].log = BuilderErrorMsg
        /\ hist[id] = <<"pending", "building", "failed">>
        /\ push[1].res.status = 200

(***************************************************************************)
(* C17  Dedup is released at dispatch, as claimed: a message whose         *)
(* container_name belongs to a dispatched, still running build and to no   *)
(* queued item is accepted by the step of process_task_enqueue that        *)
(* handles it (a pending row is inserted and the item is appended), and a  *)
(* message whose name is still queued is dropped.                          *)
(***************************************************************************)
EnqStep == enq_pc = "locked" /\ enq_pc' = "recv"

\* the step appended an item named as enq_msg with a fresh pending row
EnqAccepted ==
    /\ Len(waiting_queue') = Len(waiting_queue) + 1
    /\ SubSeq(waiting_queue', 1, Len(waiting_queue)) = waiting_queue
    /\ LET build_item == waiting_queue'[Len(waiting_queue')]
       IN /\ build_item.container_name = enq_msg.container_name
          /\ builds[build_item.build_id].status = "absent"
          /\ builds'[build_item.build_id].status = "pending"
    /\ enq_msg.container_name \in waiting_set'

C17_ReleasedAtDispatch ==
    /\ [][(/\ EnqStep
           /\ RunningAs(enq_msg.container_name) # {}
           /\ QueuedAs(enq_msg.container_name) = {})
          => EnqAccepted]_vars
    /\ [][(EnqStep /\ QueuedAs(enq_msg.container_name) # {})
          => UNCHANGED <<waiting_queue, waiting_set, builds>>]_vars

(***************************************************************************)
(* C17  Dedup is released at dispatch: a message whose container_name      *)
(* belongs to a dispatched, still running build and to no queued item is   *)
(* never dropped as a duplicate; it is accepted (a pending row is          *)
(* inserted and the item is appended) unless the project lookup finds no   *)
(* row or a store statement fails, and then the queue, the name set and    *)
(* the builds table stay as they are.  A message whose name is still       *)
(* queued leaves all three unchanged.                                      *)
(***************************************************************************)
C17_ReleasedAtDispatchUnlessStoreFails ==
    /\ [][(/\ EnqStep
           /\ RunningAs(enq_msg.container_name) # {}
           /\ QueuedAs(enq_msg.container_name) = {})
          => \/ EnqAccepted
             \/ /\ handled'.outcome \in {"store_err", "project_gone"}
                /\ UNCHANGED <<waiting_queue, waiting_set, builds>>]_vars
    /\ [][(EnqStep /\ QueuedAs(enq_msg.container_name) # {})
          => UNCHANGED <<waiting_queue, waiting_set, builds>>]_vars

\* a message was accepted while a build of the same name is running: the
\* name is at once running and queued, with a row for each
C17_Witness ==
    /\ handled.outcome = "queued"
    /\ RunningAs(handled.msg.container_name) # {}
    /\ QueuedAs(handled.msg.container_name) # {}
    /\ Cardinality(Rows) = 2

(***************************************************************************)
(* C18  FIFO dispatch: build tasks are spawned in the order their items    *)
(* were pushed onto the queue.  At every moment the ids dispatched so far, *)
(* followed by the id popped and about to be dispatched, are a prefix of   *)
(* the ids in append order, and the queue holds the rest in that order: an *)
(* item appended before another is popped and dispatched before it.        *)
(***************************************************************************)
PopOrder ==
    dispatched \o (IF poll_pc = "dispatch" THEN <<poll_item.build_id>> ELSE <<>>)

C18_FifoDispatch ==
    /\ IsPrefix(PopOrder, appended)
    /\ appended = PopOrder \o [i \in 1..Len(waiting_queue) |-> waiting_queue[i].build_id]

\* two items were appended and both have been dispatched, in that order,
\* the second while the build of the first had at least started
C18_Witness ==
    /\ Len(dispatched) = 2
    /\ dispatched = appended
    /\ \A id \in BuildIds : hist[id] # <<>> /\ task[id].pc # "none"
    /\ dropped = 0
    /\ released[dispatched[2]] = 0
    /\ Len(hist[dispatched[1]]) >= 2

(***************************************************************************)
(* C19  The receive-pack response never waits for the build pipeline: a    *)
(* handler that has synced the clone can always take its last step,        *)
(* whatever the channel holds and wherever the enqueue task is (the        *)
(* channel full or closed, the locks held); that step returns the response *)
(* of service_rpc as it is and touches neither the channel nor the queue;  *)
(* and once returned, a response is never changed by the send getting      *)
(* through or failing.                                                     *)
(***************************************************************************)
C19_ReplyNeverWaits ==
    /\ [](\A p \in Pushes : push[p].pc = "send" => ENABLED PushSpawnSend(p))
    /\ [][\A p \in Pushes :
            (push[p].pc = "send" /\ push'[p].pc # "send")
            => /\ push'[p].pc = "done"
               /\ push'[p].res = push[p].res
               /\ push[p].res.status = 200
               /\ UNCHANGED queueVars]_vars
    /\ [][\A p \in Pushes :
            push[p].pc = "done"
            => push'[p].pc = "done" /\ push'[p].res = push[p].res]_vars

\* the push was answered 200 and its send then failed on the closed channel
C19_Witness ==
    /\ push[1].pc = "done"
    /\ push[1].res.status = 200
    /\ push[1].send = "err"
    /\ ReceiverDropped
    /\ builds = [id \in BuildIds |-> NoRow]

(***************************************************************************)
(* C20  PktLine law: for every string s with |s| + 4 <= 0xFFFF,            *)
(* packet_write(s) is four lowercase hexadecimal digits that encode        *)
(* |s| + 4, zero-padded to width 4, followed by s, so that decoding it     *)
(* yields s; packet_flush() is 0000.                                       *)
(***************************************************************************)
\* the value of a hexadecimal digit
HexValue(c) == (CHOOSE i \in 1..16 : HexChars[i] = c) - 1

\* the number four lowercase hexadecimal digits encode
ParseHex4(h) ==
    4096 * HexValue(h[1]) + 256 * HexValue(h[2]) + 16 * HexValue(h[3]) + HexValue(h[4])

IsLowerHex4(h) ==
    Len(h) = 4 /\ \A i \in 1..4 : \E k \in 1..16 : HexChars[k] = h[i]

\* a pkt-line reader: the length from the first four bytes, then the payload
PktDecode(line) == SubSeq(line, 5, ParseHex4(SubSeq(line, 1, 4)))

C20_PktLineLaw ==
    /\ (pkt.pc = "written" /\ Len(pkt.s) + 4 <= 65535)
       => /\ Len(pkt.out) = Len(pkt.s) + 4
          /\ IsLowerHex4(SubSeq(pkt.out, 1, 4))
          /\ ParseHex4(SubSeq(pkt.out, 1, 4)) = Len(pkt.s) + 4
          /\ SubSeq(pkt.out, 5, Len(pkt.out)) = pkt.s
          /\ PktDecode(pkt.out) = pkt.s
    /\ pkt.pc = "flushed" => pkt.out = <<"0", "0", "0", "0">>

\* a 12-byte string was framed as 0010 followed by the string
C20_Witness ==
    /\ pkt.pc = "written"
    /\ Len(pkt.s) = 12
    /\ SubSeq(pkt.out, 1, 4) = <<"0", "0", "1", "0">>
    /\ Len(pkt.out) = 16

(***************************************************************************)
(* C21  Sync errors, as claimed: a handler that resolved HEAD and then     *)
(* failed to clone, to detach HEAD or to check out answers 500 and sends   *)
(* no item, and a handler spawns its send only with the clone checked out  *)
(* at the commit it resolved.                                              *)
(***************************************************************************)
C21_SyncFailureIs500 ==
    /\ [](\A p \in Pushes :
            (push[p].pc = "done" /\ push[p].head_commit_id # 0 /\ ~push[p].checked_out)
            => (push[p].res.status = 500 /\ push[p].send = "none"))
    /\ [][\A p \in Pushes :
            (push[p].pc = "send" /\ push'[p].pc = "done")
            => (clone_dir.present /\ clone_dir.tree = push[p].head_commit_id)]_vars

\* the only push handled answered 200 and spawned its send although its
\* set_head_detached or its checkout failed
C21_SentAfterFailedCheckout ==
    /\ push[1].pc = "done"
    /\ push[1].head_commit_id # 0
    /\ ~push[1].checked_out
    /\ push[1].res.status = 200
    /\ push[1].send # "none"
    /\ \A p \in Pushes \ {1} : push[p].pc = "idle"

(***************************************************************************)
(* C22  Store errors in the queue path: when process_task_enqueue finds no *)
(* project, or the project query or the INSERT of the pending row fails,   *)
(* the message is dropped: the queue, the name set and the builds table    *)
(* are unchanged, both locks are free again and the task is back at recv;  *)
(* nothing of the dispatch task is touched, so both go on with later       *)
(* messages.                                                               *)
(***************************************************************************)
C22_StoreErrorDropsMessage ==
    [][(EnqStep /\ handled'.outcome \in {"store_err", "project_gone", "no_project"})
       => /\ UNCHANGED <<waiting_queue, waiting_set, builds, pollVars, taskVars,
                         build_count>>
          /\ queue_lock' = "free"
          /\ set_lock' = "free"
          /\ enq_pc' = "recv"]_vars

\* two messages were handled: the first was dropped on a store error or a
\* missing project, the second was then queued and dispatched
C22_Witness ==
    /\ sends = 2
    /\ receive_channel = <<>>
    /\ enq_pc = "recv"
    /\ dropped = 0
    /\ handled.outcome = "queued"
    /\ Len(appended) = 1
    /\ dispatched = appended

(***************************************************************************)
(* C23  The builder runs only after the lookups and the update to          *)
(* building: a task reaches build_docker only from the update that set its *)
(* row from pending to building, which it reaches only from a lookup that  *)
(* found the project row and the build row; when a lookup or that update   *)
(* fails the task goes straight to the release of its slot, build_docker   *)
(* is not called and the row stays as it was, through the end of the task. *)
(***************************************************************************)
C23_BuilderAfterBuilding ==
    /\ [](\A id \in BuildIds :
            task[id].pc \in {"builder", "update_successful", "update_failed"}
            => hist[id] = <<"pending", "building">>)
    /\ [][\A id \in BuildIds :
            (task[id].pc # "builder" /\ task'[id].pc = "builder")
            => /\ task[id].pc = "set_building"
               /\ builds[id].status = "pending"
               /\ builds'[id].status = "building"]_vars
    /\ [][\A id \in BuildIds :
            (task[id].pc # "set_building" /\ task'[id].pc = "set_building")
            => /\ task[id].pc = "lookup"
               /\ builds[id].status # "absent"
               /\ <<task[id].item.owner, task[id].item.repo>> \in ProjectRows
               /\ builds' = builds]_vars
    /\ [][\A id \in BuildIds :
            (task[id].pc \in {"lookup", "set_building"} /\ task'[id].pc = "release")
            => (builds'[id] = builds[id] /\ task'[id].builder = "none")]_vars
    /\ [][\A id \in BuildIds :
            task[id].pc \in {"release", "done"} => builds'[id] = builds[id]]_vars

\* a task ended after a lookup or the update to building failed: the
\* builder did not run and the row is still pending
C23_Witness ==
    \E id \in BuildIds :
        /\ task[id].pc = "done"
        /\ released[id] = 1
        /\ ~task[id].store_err
        /\ ~task[id].cut_builder
        /\ hist[id] = <<"pending">>
        /\ builds[id].status = "pending"

(***************************************************************************)
(* C24  A receive-pack that is not answered 200: when service_rpc returns  *)
(* a status other than 200, receive_pack_rpc ends with that response as it *)
(* is; HEAD is not resolved, the clone directory is not touched, no send   *)
(* is spawned and nothing of the queue changes, then or later.             *)
(***************************************************************************)
C24_NonOkReturnedAsIs ==
    /\ [][\A p \in Pushes :
            (/\ push[p].pc = "idle"
             /\ push[p].req.rpc = "receive-pack"
             /\ push'[p].pc # "idle"
             /\ push'[p].res.status \notin {0, 200})
            => /\ push'[p].pc = "done"
               /\ push'[p].res \in
                    { service_rpc("receive-pack", push[p].req.content_encoding,
                                  push[p].req.body, git).res : git \in GitOutcomes }
               /\ push'[p].head_commit_id = 0
               /\ push'[p].send = "none"
               /\ UNCHANGED <<clone_dir, outbox, queueVars>>]_vars
    /\ [][\A p \in Pushes :
            (push[p].pc = "done" /\ push[p].head_commit_id = 0)
            => UNCHANGED <<push, clone_dir, outbox, queueVars>>]_vars

\* a receive-pack whose gzip body could not be inflated was answered 500
\* without a git process, and the clone that was there is as it was
C24_Witness ==
    /\ push[1].req.rpc = "receive-pack"
    /\ push[1].pc = "done"
    /\ push[1].res = Response(500)
    /\ push[1].git_runs = 0
    /\ push[1].head_commit_id = 0
    /\ push[1].send = "none"
    /\ clone_dir = [present |-> TRUE, head |-> 100, tree |-> 100]
    /\ outbox = <<>> /\ receive_channel = <<>>

(***************************************************************************)
(* C25  HEAD cannot be resolved: a handler whose receive-pack succeeded    *)
(* and that cannot open the bare repository or resolve HEAD (always so     *)
(* when HEAD names no commit) ends with 500 and an empty body in that      *)
(* step, which leaves the clone directory, the spawned sends and the queue *)
(* as they are; it never spawns a send.                                    *)
(***************************************************************************)
C25_UnresolvedHeadIs500 ==
    /\ [][\A p \in Pushes :
            (push[p].pc = "resolve_head" /\ push'[p].pc # "resolve_head")
            => \/ /\ bare_head # 0
                  /\ push'[p].pc = "remove"
                  /\ push'[p].head_commit_id = bare_head
               \/ /\ push'[p].pc = "done"
                  /\ push'[p].res = Response(500)
                  /\ push'[p].head_commit_id = 0
                  /\ push'[p].send = "none"
                  /\ UNCHANGED <<clone_dir, outbox, queueVars>>]_vars
    /\ [](\A p \in Pushes :
            (push[p].pc = "done" /\ push[p].head_commit_id = 0)
            => push[p].send = "none")
    /\ [](\A p \in Pushes :
            push[p].pc \in {"remove", "clone", "set_head", "checkout", "send"}
            => push[p].head_commit_id # 0)

\* the only push handled moved HEAD, could not resolve it and was answered
\* 500; the clone that was there is as it was and nothing was sent
C25_Witness ==
    /\ push[1].pc = "done"
    /\ push[1].commit = 1
    /\ push[1].res = Response(500)
    /\ push[1].head_commit_id = 0
    /\ push[1].send = "none"
    /\ \A p \in Pushes \ {1} : push[p].pc = "idle"
    /\ clone_dir = [present |-> TRUE, head |-> 100, tree |-> 100]
    /\ outbox = <<>> /\ receive_channel = <<>>

(***************************************************************************)
(* C26  The dispatch step and its frame: process_task_poll pops only when  *)
(* available_slots > 0 and the queue is not empty; it then pops exactly    *)
(* the head, removes exactly the head's name from the name set, and, the   *)
(* locks dropped, takes exactly one slot and spawns exactly the task of    *)
(* the popped item; an iteration that finds the condition false leaves     *)
(* queue, name set, available_slots and the build tasks as they are.       *)
(***************************************************************************)
C26_DispatchFrame ==
    /\ [][(poll_pc = "locked" /\ poll_pc' = "dispatch")
          => /\ build_count > 0
             /\ waiting_queue # <<>>
             /\ poll_item' = waiting_queue[1]
             /\ waiting_queue' = SubSeq(waiting_queue, 2, Len(waiting_queue))
             /\ waiting_queue[1].container_name \in waiting_set
             /\ waiting_set' = waiting_set \ {waiting_queue[1].container_name}
             /\ UNCHANGED <<build_count, task>>]_vars
    /\ [][(poll_pc = "locked" /\ poll_pc' = "lock_queue")
          => /\ ~(build_count > 0 /\ waiting_queue # <<>>)
             /\ UNCHANGED <<waiting_queue, waiting_set, build_count, task>>]_vars
    /\ [][(poll_pc = "dispatch" /\ poll_pc' # "dispatch")
          => /\ build_count > 0
             /\ build_count' = build_count - 1
             /\ task[poll_item.build_id].pc = "none"
             /\ task'[poll_item.build_id].pc = "lookup"
             /\ task'[poll_item.build_id].item = poll_item
             /\ \A id \in BuildIds \ {poll_item.build_id} : task'[id] = task[id]
             /\ UNCHANGED <<waiting_queue, waiting_set>>]_vars
    /\ [][\A id \in BuildIds :
            (task[id].pc = "none" /\ task'[id].pc # "none") => poll_pc = "dispatch"]_vars
    /\ [][build_count' < build_count => poll_pc = "dispatch"]_vars

\* the head of a queue of two was popped and its task spawned: one slot is
\* taken, the other item and its name are still there
C26_Witness ==
    /\ Len(appended) = 2
    /\ dispatched = <<appended[1]>>
    /\ task[appended[1]].pc = "lookup"
    /\ task[appended[2]].pc = "none"
    /\ build_count = capacity - 1
    /\ Len(waiting_queue) = 1
    /\ waiting_queue[1].build_id = appended[2]
    /\ waiting_set = {waiting_queue[1].container_name}
    /\ poll_pc = "lock_queue"

(***************************************************************************)
(* C27  finished_at, as claimed: no build row is in a terminal status      *)
(* (successful or failed) with finished_at unset.                          *)
(***************************************************************************)
C27_TerminalHasFinishedAt ==
    \A id \in BuildIds :
        builds[id].status \in {"successful", "failed"}
        => builds[id].finished_at # "null"

\* a build ended successful, its task is over, and finished_at is unset
C27_FinishedAtUnset ==
    \E id \in BuildIds :
        /\ task[id].pc = "done"
        /\ hist[id] = <<"pending", "building", "successful">>
        /\ builds[id].status = "successful"
        /\ builds[id].finished_at = "null"

(***************************************************************************)
(* C28  The per-build timer: a task's timer is the configured timeout, in  *)
(* milliseconds, divided by 1000 and truncated, in seconds: for a          *)
(* configured t the timer N satisfies 1000 N <= t < 1000 (N + 1), so any   *)
(* t below 1000 gives a timer of zero seconds, and the log written on a    *)
(* timeout reports that N.                                                 *)
(***************************************************************************)
C28_TimerTruncatesToSeconds ==
    \A id \in BuildIds :
        /\ task[id].pc # "none"
           => /\ 1000 * task[id].build_timeout <= config_timeout
              /\ config_timeout < 1000 * (task[id].build_timeout + 1)
              /\ (config_timeout < 1000 => task[id].build_timeout = 0)
        /\ (builds[id].status = "failed" /\ builds[id].log # BuilderErrorMsg)
           => /\ builds[id].log[1] = "Build timeout after "
              /\ builds[id].log[2] = task[id].build_timeout
              /\ builds[id].log[3] = " seconds"

\* with 999 ms configured a build timed out and its log reports 0 seconds
C28_Witness ==
    \E id \in BuildIds :
        /\ config_timeout = 999
        /\ task[id].pc = "done"
        /\ task[id].build_timeout = 0
        /\ builds[id].status = "failed"
        /\ builds[id].log = <<"Build timeout after ", 0, " seconds">>

(***************************************************************************)
(* C29  The ingress channel: it never holds more than 32 items; a send     *)
(* gets through only when there is room, so a producer that finds the      *)
(* channel full waits for process_task_enqueue to receive; and while that  *)
(* task is running the channel only grows at its end by the item sent and  *)
(* shrinks at its head by the item received, so nothing sent is lost.      *)
(***************************************************************************)
C29_ChannelBounded ==
    /\ [](Len(receive_channel) <= 32)
    /\ [][\A p \in Pushes :
            (push[p].send = "spawned" /\ push'[p].send = "ok")
            => /\ Len(receive_channel) < 32
               /\ receive_channel' = Append(receive_channel, PushItem(p))]_vars
    /\ [][(enq_pc' # "ended")
          => \/ receive_channel' = receive_channel
             \/ /\ Len(receive_channel') = Len(receive_channel) + 1
                /\ SubSeq(receive_channel', 1, Len(receive_channel)) = receive_channel
             \/ /\ receive_channel # <<>>
                /\ receive_channel' = SubSeq(receive_channel, 2, Len(receive_channel))
                /\ enq_pc = "recv"
                /\ enq_msg' = receive_channel[1]]_vars

\* the channel was full when the push's send was spawned; after one item
\* was received the send got through and the channel is full again, the
\* item of the push last
C29_Witness ==
    /\ Len(receive_channel) = 32
    /\ push[1].send = "ok"
    /\ receive_channel[32] = PushItem(1)
    /\ ~ReceiverDropped

(***************************************************************************)
(* C30  Git process failures, as claimed: a request whose service_rpc ran  *)
(* ends with a response; the response is 500 with an empty body when the   *)
(* git process could not be spawned, written to or waited for, or exited   *)
(* unsuccessfully, and 200 with the stdout of the process (or, for a       *)
(* probe, Content-Length 0) otherwise.                                     *)
(***************************************************************************)
C30_GitFailureIs500 ==
    \A p \in Pushes :
        push[p].pc = "done"
        => \/ push[p].res = Response(500)
           \/ /\ push[p].res.status = 200
              /\ \/ push[p].res.body = GitStdout
                 \/ push[p].res.content_length = "0"

\* an upload-pack of a pack: git could not be spawned, the handler
\* panicked in expect and ended without a response
C30_SpawnPanics ==
    /\ push[1].req.rpc = "upload-pack"
    /\ push[1].req.body = Plain(Pack)
    /\ push[1].req.content_encoding = "identity"
    /\ push[1].pc = "done"
    /\ push[1].git_runs = 0
    /\ push[1].res = NoResponse

(***************************************************************************)
(* The environment of the git child process (get_info_refs, service_rpc).  *)
(***************************************************************************)
\* headers.get("Git-Protocol").and_then(|v| v.to_str().ok()) matched with
\* Some("version=2")
GitProtocolEnv(header) ==
    IF header.present /\ header.to_str_ok /\ header.value = "version=2"
    THEN <<"GIT_PROTOCOL", "version=2">>
    ELSE <<"", "">>

\* std::env::vars().chain([env]).collect::<Vec<_>>()
Envs(server_env, header) == server_env \o << GitProtocolEnv(header) >>

\* Command::envs(envs) on a Command that inherits the server's
\* environment: the child holds every variable of the server, with the
\* pairs of envs put over them in order (a later pair replaces an earlier
\* one of the same name).  "unset" when the child holds no such variable
ChildEnv(server_env, envs, name) ==
    LET all == server_env \o envs
        at == { i \in DOMAIN all : all[i][1] = name }
    IN IF at = {} THEN "unset"
       ELSE all[CHOOSE i \in at : \A j \in at : j <= i][2]

\* a request to one of the two handlers that build the pair, each for
\* both services.  server_env holds the variables of the server process in
\* the order of std::env::vars(), a Vec of (name, value) pairs with
\* distinct names; header is the Git-Protocol header of the request:
\* absent, or a value that to_str() accepts (visible ASCII) or refuses
EnvInit ==
    LET pairs == {"GIT_PROTOCOL", "PATH"} \X {"version=2", "version=1", "/bin"}
        ServerEnvs ==
          { e \in UNION { [1..n -> pairs] : n \in 0..2 } :
              \A i, j \in DOMAIN e : i # j => e[i][1] # e[j][1] }
        GitProtocolHeaders ==
          {[present |-> FALSE, to_str_ok |-> FALSE, value |-> ""]} \cup
              [present : {TRUE}, to_str_ok : BOOLEAN,
               value : {"version=2", "version=1"}]
    IN http \in { [pc |-> "env", handler |-> h, service |-> sv, header |-> hd,
                   server_env |-> e, envs |-> <<>>, child |-> "none"] :
                    h \in {"get_info_refs", "service_rpc"},
                    sv \in {"upload-pack", "receive-pack"},
                    hd \in GitProtocolHeaders, e \in ServerEnvs }

\* lines 505-510 and 589-594
HttpEnvs ==
    /\ http.pc = "env"
    /\ http' = [http EXCEPT !.pc = "spawn",
                            !.envs = Envs(http.server_env, http.header)]
    /\ UNCHANGED <<pkt, queueVars, authVars, pushVars>>

\* cmd.spawn() of service_rpc, Command::output() of git_command: the child
\* runs with its environment; child is its GIT_PROTOCOL
HttpSpawn ==
    /\ http.pc = "spawn"
    /\ http' = [http EXCEPT !.pc = "spawned",
                            !.child = ChildEnv(http.server_env, http.envs,
                                               "GIT_PROTOCOL")]
    /\ UNCHANGED <<pkt, queueVars, authVars, pushVars>>

(***************************************************************************)
(* The file endpoints of the router (lines 130-170) and their handlers.    *)
(***************************************************************************)
\* the string literals of the handlers and AppState.base, here the
\* directory "d"
Lit ==
    [base |-> <<"d">>,
     HEAD |-> <<"H", "E", "A", "D">>,
     objects |-> <<"o", "b", "j", "e", "c", "t", "s">>,
     info |-> <<"i", "n", "f", "o">>,
     alternates |-> <<"a", "l", "t", "e", "r", "n", "a", "t", "e", "s">>,
     http_ |-> <<"h", "t", "t", "p", "-">>,
     packs |-> <<"p", "a", "c", "k", "s">>,
     pack |-> <<"p", "a", "c", "k">>,
     idx |-> <<"i", "d", "x">>]

\* format!("{a}/{b}")
Slash(a, b) == a \o <<"/">> \o b

\* each route with the number of its captures (:owner, :repo, ...), the
\* Path<..> its handler asks for (a single String, or a tuple of n
\* Strings) and the handler it calls
Routes ==
    { [name |-> "HEAD", captures |-> 2, path |-> "tuple", arity |-> 2],
      [name |-> "objects/info/alternates", captures |-> 2, path |-> "tuple", arity |-> 2],
      [name |-> "objects/info/http-alternates", captures |-> 2, path |-> "tuple", arity |-> 2],
      [name |-> "objects/info/packs", captures |-> 2, path |-> "single", arity |-> 1],
      [name |-> "objects/info/:file", captures |-> 3, path |-> "tuple", arity |-> 4],
      [name |-> "objects/:head/:hash", captures |-> 4, path |-> "tuple", arity |-> 3],
      [name |-> "objects/packs/:file", captures |-> 3, path |-> "tuple", arity |-> 2] }

\* what the Path extractor (axum) can give a handler for the captures of
\* the matched route.  A single String is extracted only from exactly one
\* capture, a tuple of n never from fewer than n; from more than n a tuple
\* is refused or filled with the first n captures, depending on the
\* version of the library.  A refusal is answered with 500
PathParams(route, captures) ==
    IF route.path = "single"
    THEN (IF Len(captures) = 1 THEN {captures} ELSE {<<>>})
    ELSE IF Len(captures) < route.arity THEN {<<>>}
    ELSE IF Len(captures) = route.arity THEN {captures}
    ELSE {<<>>, SubSeq(captures, 1, route.arity)}

get_file_text(base, owner, repo, file) ==
    IF EndsWith(repo, DotGit)
    THEN Slash(Slash(Slash(base, owner), repo), file)
    ELSE Slash(Slash(Slash(base, owner), repo \o DotGit), file)

get_info_packs(base, repo) ==
    IF EndsWith(repo, DotGit)
    THEN Slash(Slash(Slash(Slash(base, repo), Lit.objects), Lit.info), Lit.packs)
    ELSE Slash(Slash(Slash(Slash(base, repo \o DotGit), Lit.objects), Lit.info),
               Lit.packs)

get_loose_object(base, repo, head, hash) ==
    IF EndsWith(repo, DotGit)
    THEN Slash(Slash(Slash(Slash(base, repo), Lit.objects), head), hash)
    ELSE Slash(Slash(Slash(base, repo \o DotGit), Lit.objects), head \o hash)

get_pack_or_idx_file(base, repo, file) ==
    IF EndsWith(repo, DotGit)
    THEN Slash(Slash(Slash(Slash(base, repo), Lit.objects), Lit.pack), file)
    ELSE Slash(Slash(Slash(base, repo \o DotGit), Lit.objects), Lit.pack \o file)

\* StdPath::new(&path).extension(): what follows the last "." of the last
\* component, when that component has a "." after its first character;
\* <<>> stands for None
Extension(path) ==
    LET slashes == { i \in DOMAIN path : path[i] = "/" }
        start == IF slashes = {} THEN 1
                 ELSE 1 + CHOOSE i \in slashes : \A j \in slashes : j <= i
        name == SubSeq(path, start, Len(path))
        dots == { i \in 2..Len(name) : name[i] = "." }
    IN IF dots = {} THEN <<>>
       ELSE SubSeq(name, 1 + (CHOOSE i \in dots : \A j \in dots : j <= i), Len(name))

\* the path the handler of a route opens, from the parameters it was given
HandlerPath(route, p) ==
    CASE route.name = "HEAD" -> get_file_text(Lit.base, p[1], p[2], Lit.HEAD)
      [] route.name = "objects/info/alternates" ->
           get_file_text(Lit.base, p[1], p[2],
                         Slash(Slash(Lit.objects, Lit.info), Lit.alternates))
      [] route.name = "objects/info/http-alternates" ->
           get_file_text(Lit.base, p[1], p[2],
                         Slash(Slash(Lit.objects, Lit.info),
                               Lit.http_ \o Lit.alternates))
      [] route.name = "objects/info/packs" -> get_info_packs(Lit.base, p[1])
      [] route.name = "objects/info/:file" ->
           get_file_text(Lit.base, p[1], p[2], Slash(p[3], p[4]))
      [] route.name = "objects/:head/:hash" ->
           get_loose_object(Lit.base, p[1], p[2], p[3])
      [] route.name = "objects/packs/:file" ->
           get_pack_or_idx_file(Lit.base, p[1], p[2])

\* the file of the bare repository <base>/<O>/<R.git> a request names
RepoFile(route, c) ==
    LET dir == Slash(Slash(Lit.base, c[1]), StripDotGit(c[2]) \o DotGit)
    IN CASE route.name = "objects/info/:file" ->
              Slash(Slash(Slash(dir, Lit.objects), Lit.info), c[3])
         [] route.name = "objects/:head/:hash" ->
              Slash(Slash(Slash(dir, Lit.objects), c[3]), c[4])
         [] route.name = "objects/packs/:file" ->
              Slash(Slash(Slash(dir, Lit.objects), Lit.pack), c[3])
         [] route.name = "HEAD" -> Slash(dir, Lit.HEAD)
         [] route.name = "objects/info/alternates" ->
              Slash(Slash(Slash(dir, Lit.objects), Lit.info), Lit.alternates)
         [] route.name = "objects/info/http-alternates" ->
              Slash(Slash(Slash(dir, Lit.objects), Lit.info),
                    Lit.http_ \o Lit.alternates)
         [] route.name = "objects/info/packs" ->
              Slash(Slash(Slash(dir, Lit.objects), Lit.info), Lit.packs)

\* a request matched to its route, for the repository p of a, named p or
\* p.git; files are the paths File::open finds: the files of the
\* repository the requests name, all there or all missing
FileInit ==
    LET tails(route) ==
          CASE route.name = "objects/info/:file" -> { << <<"f">> >> }
            [] route.name = "objects/:head/:hash" -> { << <<"x">>, <<"y">> >> }
            [] route.name = "objects/packs/:file" ->
                 { << <<"k", ".">> \o Lit.pack >>, << <<"k", ".">> \o Lit.idx >>,
                   << <<"k">> >> }
            [] OTHER -> { <<>> }
        FileRequests ==
          UNION { { [route |-> r, captures |-> <<Alice, repo>> \o t] :
                      repo \in {<<"p">>, <<"p">> \o DotGit}, t \in tails(r) } :
                    r \in Routes }
    IN http \in { [pc |-> "extract", route |-> q.route, captures |-> q.captures,
                   files |-> fs, params |-> <<>>, path |-> <<>>,
                   res |-> [status |-> 0, file |-> <<>>]] :
                    q \in FileRequests,
                    fs \in { {}, { RepoFile(f.route, f.captures) :
                                     f \in FileRequests } } }

\* the Path extractor runs before the handler
HttpExtract ==
    /\ http.pc = "extract"
    /\ \E p \in PathParams(http.route, http.captures) :
         http' = IF p = <<>>
                 THEN [http EXCEPT !.pc = "done", !.res.status = 500]
                 ELSE [http EXCEPT !.pc = "open", !.params = p]
    /\ UNCHANGED <<pkt, queueVars, authVars, pushVars>>

\* the handler: File::open(path), Err(_) answered with 404 and an empty
\* body; get_pack_or_idx_file answers 404 as well when the extension is
\* neither pack nor idx.  res.file is the file whose contents are the body
HttpOpen ==
    /\ http.pc = "open"
    /\ LET path == HandlerPath(http.route, http.params)
           served == /\ path \in http.files
                     /\ http.route.name = "objects/packs/:file"
                          => Extension(path) \in {Lit.pack, Lit.idx}
       IN http' = [http EXCEPT !.pc = "done", !.path = path,
                               !.res = IF served
                                       THEN [status |-> 200, file |-> path]
                                       ELSE [status |-> 404, file |-> <<>>]]
    /\ UNCHANGED <<pkt, queueVars, authVars, pushVars>>

\* one request to get_info_refs or service_rpc that spawns git, or one to
\* a file endpoint
HttpSpecInit ==
    /\ QueueInit /\ capacity = 1
    /\ AuthIdle
    /\ bare_head = 0
    /\ clone_dir = NoClone
    /\ push = [p \in Pushes |-> NoPush]
    /\ outbox = <<>>
    /\ pkt = NoPkt
    /\ (EnvInit \/ FileInit)

HttpNext == HttpEnvs \/ HttpSpawn \/ HttpExtract \/ HttpOpen

HttpSpec == HttpSpecInit /\ [][HttpNext]_vars

\* C31: the git child process holds GIT_PROTOCOL=version=2 exactly when the
\* request carried the header Git-Protocol: version=2, whatever the
\* server's own environment holds.
C31_ProtocolFollowsHeader ==
    http.pc = "spawned" =>
        (http.child = "version=2"
            <=> GitProtocolEnv(http.header) = <<"GIT_PROTOCOL", "version=2">>)

\* a child was spawned with GIT_PROTOCOL=version=2, taken from the server's
\* environment, for a request without the header
C31_InheritedProtocol ==
    /\ http.pc = "spawned"
    /\ ~http.header.present
    /\ http.child = "version=2"

\* C32: every file endpoint, for a repository named R or R.git, answers
\* with the corresponding file under <base>/<O>/<R.git> (the same file for
\* both names), and with 404 and an empty body when that file is missing.
C32_ServesRepoFile ==
    (/\ http.pc = "done"
     /\ "route" \in DOMAIN http
     /\ http.route.name = "objects/packs/:file"
          => Extension(http.captures[3]) \in {Lit.pack, Lit.idx})
    => LET file == RepoFile(http.route, http.captures)
       IN IF file \in http.files
          THEN http.res = [status |-> 200, file |-> file]
          ELSE http.res = [status |-> 404, file |-> <<>>]

\* GET /a/p/objects/info/packs while the repository holds the file: the
\* extractor refused the two captures and the answer is 500
C32_InfoPacksRefused ==
    /\ http.pc = "done"
    /\ http.route.name = "objects/info/packs"
    /\ RepoFile(http.route, http.captures) \in http.files
    /\ http.res.status = 500

(***************************************************************************)
(* Pushes to two projects of one owner, p.q and p-q.                       *)
(***************************************************************************)
DottedNext ==
    \/ \E repo \in { <<"p", ".", "q">>, <<"p", "-", "q">> } :
         Send(BuildQueueItemOf(Alice, repo))
    \/ EnqRecv
    \/ EnqLockQueue
    \/ EnqLockSet
    \/ EnqBody
    \/ PollLockQueue
    \/ PollLockSet
    \/ PollBody
    \/ PollDispatch
    \/ \E id \in BuildIds : TaskStep(id)

DottedSpec == Init /\ [][DottedNext]_vars

\* the project of a message or of an item: (owner, repo without .git)
ProjectOf(m) == <<m.owner, StripDotGit(m.repo)>>

\* C33: a message is dropped as a duplicate only when an item of the same
\* project is queued: items of different projects never share a
\* container_name.
C33_DropOnlySameProject ==
    [][dropped' = dropped + 1
         => \E i \in DOMAIN waiting_queue :
              ProjectOf(waiting_queue[i]) = ProjectOf(enq_msg)]_vars

\* the push to a/p-q was dropped while the only item ever queued, still
\* in the queue, is of a/p.q: both have the container_name a-p-q
C33_DroppedForOtherProject ==
    /\ handled.outcome = "duplicate"
    /\ Len(appended) = 1 /\ dispatched = <<>> /\ Len(waiting_queue) = 1
    /\ waiting_queue[1].container_name = handled.msg.container_name
    /\ ProjectOf(waiting_queue[1]) # ProjectOf(handled.msg)

(***************************************************************************)
(* Runs in which the store calls of the build tasks succeed.               *)
(***************************************************************************)
\* no step in which a query of trigger_build fails or finds no project
\* row (lines 105-162), and none in which an UPDATE of a terminal status
\* fails (lines 168-207, 337-346)
StoresOk ==
    \A id \in BuildIds :
        /\ ~(task[id].pc \in {"lookup", "set_building"} /\ task'[id].pc = "release")
        /\ task'[id].store_err = task[id].store_err

OkNext ==
    \/ \E item \in BuildQueueItems : Send(item)
    \/ EnqRecv
    \/ EnqLockQueue
    \/ EnqLockSet
    \/ EnqBody
    \/ PollLockQueue
    \/ PollLockSet
    \/ PollBody
    \/ PollDispatch
    \/ \E id \in BuildIds : TaskStep(id) /\ StoresOk

\* fair scheduling of the two loops and of the build tasks, whose builder
\* returns or is cut off by the timer
OkLiveSpec ==
    /\ Init /\ [][OkNext]_vars
    /\ WF_vars(EnqRecv \/ EnqLockQueue \/ EnqLockSet \/ EnqBody)
    /\ WF_vars(PollLockQueue \/ PollLockSet \/ PollBody \/ PollDispatch)
    /\ \A id \in BuildIds : WF_vars(TaskStep(id))

\* C34: with store calls that succeed, a project row found at dispatch and
\* fair scheduling, every build record inserted as pending eventually holds
\* a terminal status (successful or failed).
C34_RecordReachesTerminal ==
    \A id \in BuildIds :
        (builds[id].status = "pending")
            ~> (builds[id].status \in {"successful", "failed"})

\* a record that was pending and building holds a terminal status
C34_Witness ==
    \E id \in BuildIds :
        /\ builds[id].status \in {"successful", "failed"}
        /\ SubSeq(hist[id], 1, 2) = <<"pending", "building">>
        /\ Len(hist[id]) = 3

\* C35: with fair scheduling and builds that end (by returning or by the
\* timer), every BuildItem appended to the queue is eventually dispatched:
\* its build task is spawned, whatever arrives after it.
C35_AppendedIsDispatched ==
    \A id \in BuildIds :
        (\E i \in DOMAIN appended : appended[i] = id)
            ~> (\E i \in DOMAIN dispatched : dispatched[i] = id)

\* with one slot, the second item appended was dispatched after the build
\* of the first had given the slot back
C35_Witness ==
    /\ capacity = 1
    /\ Len(appended) = 2
    /\ dispatched = appended
    /\ task[appended[1]].pc = "done"

\* tokio's Mutex hands a released lock to the task that has waited for it
\* longest: a loop that waits in lock() while the lock is released again
\* and again gets it, which is strong fairness of the four lock() steps
FairLockSpec ==
    /\ LiveSpec
    /\ SF_vars(EnqLockQueue) /\ SF_vars(EnqLockSet)
    /\ SF_vars(PollLockQueue) /\ SF_vars(PollLockSet)

\* C36: the two loops never deadlock on the two mutexes.  Both take
\* waiting_queue before waiting_set, so whoever holds waiting_set holds
\* waiting_queue too and neither waits for a lock while the other waits for
\* it; both start every iteration holding nothing; and under fair
\* scheduling a loop that starts to lock always comes to hold both locks.
C36_NoDeadlock ==
    /\ [](/\ set_lock # "free" => queue_lock = set_lock
          /\ enq_pc \in {"recv", "lock_queue", "ended"}
               => queue_lock # "enqueue" /\ set_lock # "enqueue"
          /\ poll_pc \in {"lock_queue", "dispatch"}
               => queue_lock # "poll" /\ set_lock # "poll"
          /\ ~(/\ enq_pc = "lock_set" /\ set_lock = "poll"
               /\ poll_pc = "lock_queue"))
    /\ (enq_pc = "lock_queue") ~> (enq_pc = "locked")
    /\ (poll_pc = "lock_queue") ~> (poll_pc = "locked")

\* the enqueue loop waits for waiting_queue while the dispatch loop holds
\* both locks
C36_Witness ==
    /\ enq_pc = "lock_queue"
    /\ poll_pc = "locked"
    /\ queue_lock = "poll" /\ set_lock = "poll"

\* the build ids of the BuildItems dispatched, popped and queued, oldest
\* first
ItemIds ==
    PopOrder \o [i \in 1..Len(waiting_queue) |-> waiting_queue[i].build_id]

\* C37: every BuildItem that is queued or was dispatched has a BuildRecord
\* of its build_id, inserted as pending by the step that appended the item,
\* and no two BuildItems share a build_id.
C37_ItemsHaveRecords ==
    /\ \A i \in DOMAIN ItemIds :
         /\ ItemIds[i] \in Rows
         /\ Head(hist[ItemIds[i]]) = "pending"
    /\ \A i, j \in DOMAIN ItemIds : i # j => ItemIds[i] # ItemIds[j]
    /\ ItemIds = appended

\* one item was dispatched and another waits in the queue, each with its
\* own record
C37_Witness ==
    /\ Len(dispatched) = 1
    /\ Len(waiting_queue) = 1
    /\ {dispatched[1], waiting_queue[1].build_id} \subseteq Rows
    /\ dispatched[1] # waiting_queue[1].build_id

\* C38: whenever neither loop holds a lock, waiting_set is exactly the set
\* of the container_name values of the items in waiting_queue, and no two
\* items of waiting_queue have the same container_name, so the two have
\* the same size.
C38_SetMirrorsQueue ==
    (queue_lock = "free" /\ set_lock = "free") =>
        /\ waiting_set = QueuedNames
        /\ Cardinality(waiting_set) = Len(waiting_queue)
        /\ \A i, j \in DOMAIN waiting_queue :
             i # j => waiting_queue[i].container_name # waiting_queue[j].container_name

\* an item was popped from a queue of two and the locks are free: the set
\* holds the name of the item left
C38_Witness ==
    /\ queue_lock = "free" /\ set_lock = "free"
    /\ Len(appended) = 2
    /\ poll_pc = "dispatch"
    /\ Len(waiting_queue) = 1
    /\ waiting_set = {waiting_queue[1].container_name}

\* C39: build_count, the available slots, stays within 0..capacity: no
\* fetch_sub happens at 0 (which would wrap to usize::MAX) and no fetch_add
\* takes it above the capacity, however the dispatch loop's load and
\* fetch_sub interleave with the fetch_add of the build tasks.
C39_SlotsInRange ==
    /\ [](build_count \in 0..capacity)
    /\ [][build_count' < build_count => build_count > 0]_vars
    /\ [][build_count' > build_count => build_count < capacity]_vars

\* every slot was taken (the count was 0), one build has given its slot
\* back and the dispatch loop, having loaded the count and popped the next
\* item, is about to fetch_sub
C39_Witness ==
    /\ poll_pc = "dispatch"
    /\ build_count = 1
    /\ Cardinality(SlotHolders) = capacity - 1
    /\ \E id \in BuildIds : task[id].pc = "done"

=============================================================================
